---------------------------- MODULE Spec2Model ----------------------------
(***************************************************************************)
(* Kube_TUI: the generic resource table (components/api_resource_content), *)
(* its column inference and field extraction, and its watch loop.          *)
(*                                                                         *)
(* Python values (the schema-less items the cluster returns) are tagged    *)
(* records; a Python exception is the value Raise(e).                      *)
(***************************************************************************)
EXTENDS Integers, Sequences, FiniteSets, TLC

VARIABLES
    selected_api_resource, \* app.selected_api_resource ("" while unset)
    current_namespace,     \* app.current_namespace
    views,                 \* the ApiResourceContent widgets created so far
    sample,     \* ExtractSpec: the item handed to column inference / extraction
    field_path, \* ExtractSpec: the extraction path
    result,     \* ExtractSpec: what the function returned (or raised)
    stage,      \* ExtractSpec: "input" | "analyzed" | "extracted"
    now,        \* AgeSpec: datetime.now(timezone.utc), seconds since the model's epoch
    modal       \* the modal screen on top (create or logs), NoModal when none

appvars == <<selected_api_resource, current_namespace, views>>
fvars == <<sample, field_path, result, stage, now, modal>>
vars == <<selected_api_resource, current_namespace, views, sample, field_path, result, stage,
          now, modal>>

---------------------------------------------------------------------------
(* Python values *)

VNone == [tag |-> "none"]
VStr(s) == [tag |-> "str", s |-> s]
VInt(n) == [tag |-> "int", n |-> n]
VBool(b) == [tag |-> "bool", b |-> b]
VList(q) == [tag |-> "list", l |-> q]
VDict(f) == [tag |-> "dict", d |-> f]
EmptyDict == VDict([k \in {} |-> VNone])
EmptyList == VList(<<>>)
Raise(e) == [tag |-> "exc", e |-> e]
IsExc(v) == v.tag = "exc"

\* `sub in s` on two strings: substring containment.
StrContains(sub, s) ==
    \E i \in 1..(Len(s) - Len(sub) + 1) : SubSeq(s, i, i + Len(sub) - 1) = sub

\* F(a), with a evaluated once and handed to F as a value
Eval(F(_), a) == CHOOSE r \in { F(x) : x \in {a} } : TRUE

Min(S) == CHOOSE x \in S : \A y \in S : x <= y

\* str.split(sep), sep one character: the pieces of s between the occurrences
\* of sep, in order
PySplit(s, sep) ==
    LET at == { i \in 1..Len(s) : SubSeq(s, i, i) = sep }
        \* the k-th occurrence of sep; 0 before the first, Len(s)+1 after the last
        cut(k) == IF k = 0 THEN 0
                  ELSE IF k > Cardinality(at) THEN Len(s) + 1
                  ELSE CHOOSE i \in at : Cardinality({ j \in at : j < i }) = k - 1
    IN [k \in 1..(Cardinality(at) + 1) |-> SubSeq(s, cut(k - 1) + 1, cut(k) - 1)]

Digits == <<"0", "1", "2", "3", "4", "5", "6", "7", "8", "9">>
IsDigit(c) == \E d \in 1..10 : Digits[d] = c
DigitVal(c) == (CHOOSE d \in 1..10 : Digits[d] = c) - 1

\* the number the first n characters of the digit string s denote
RECURSIVE DecimalValue(_, _)
DecimalValue(s, n) ==
    IF n = 0 THEN 0
    ELSE 10 * DecimalValue(s, n - 1) + DigitVal(SubSeq(s, n, n))

\* int(s) on a string: the number, or ValueError.
PyInt(s) ==
    IF Len(s) > 0 /\ \A i \in 1..Len(s) : IsDigit(SubSeq(s, i, i))
    THEN VInt(DecimalValue(s, Len(s)))
    ELSE Raise("ValueError")

\* `key in x`
PyIn(key, x) ==
    CASE x.tag = "dict" -> VBool(key \in DOMAIN x.d)
      [] x.tag = "str"  -> VBool(StrContains(key, x.s))
      [] x.tag = "list" -> VBool(\E i \in 1..Len(x.l) : x.l[i].tag = "str" /\ x.l[i].s = key)
      [] OTHER          -> Raise("TypeError")

\* x[key] with a string key
PySubscript(x, key) ==
    CASE x.tag = "dict" -> IF key \in DOMAIN x.d THEN x.d[key] ELSE Raise("KeyError")
      [] OTHER          -> Raise("TypeError")

\* x[index] with a non-negative integer index
PyIndex(x, index) ==
    CASE x.tag = "list" -> IF index < Len(x.l) THEN x.l[index + 1] ELSE Raise("IndexError")
      [] x.tag = "str"  -> IF index < Len(x.s) THEN VStr(SubSeq(x.s, index + 1, index + 1))
                           ELSE Raise("IndexError")
      [] x.tag = "dict" -> Raise("KeyError")
      [] OTHER          -> Raise("TypeError")

\* x.get(key, default): only a dict has .get
PyGet(x, key, default) ==
    IF x.tag = "dict"
    THEN (IF key \in DOMAIN x.d THEN x.d[key] ELSE default)
    ELSE Raise("AttributeError")

\* len(x)
PyLen(x) ==
    CASE x.tag = "dict" -> VInt(Cardinality(DOMAIN x.d))
      [] x.tag = "list" -> VInt(Len(x.l))
      [] x.tag = "str"  -> VInt(Len(x.s))
      [] OTHER          -> Raise("TypeError")

\* bool(x)
PyTruthy(x) ==
    CASE x.tag = "none" -> FALSE
      [] x.tag = "str"  -> x.s # ""
      [] x.tag = "int"  -> x.n # 0
      [] x.tag = "bool" -> x.b
      [] x.tag = "list" -> Len(x.l) > 0
      [] x.tag = "dict" -> DOMAIN x.d # {}

RECURSIVE PyRepr(_)
RECURSIVE JoinRepr(_)
JoinRepr(q) ==
    IF Len(q) = 0 THEN ""
    ELSE IF Len(q) = 1 THEN PyRepr(q[1])
    ELSE PyRepr(q[1]) \o ", " \o JoinRepr(Tail(q))

\* repr(x); a dict's entries are elided (the model keeps no insertion order)
PyRepr(x) ==
    CASE x.tag = "none" -> "None"
      [] x.tag = "str"  -> "'" \o x.s \o "'"
      [] x.tag = "int"  -> ToString(x.n)
      [] x.tag = "bool" -> IF x.b THEN "True" ELSE "False"
      [] x.tag = "list" -> "[" \o JoinRepr(x.l) \o "]"
      [] x.tag = "dict" -> IF DOMAIN x.d = {} THEN "{}" ELSE "{...}"

\* str(x)
PyStr(x) == IF x.tag = "str" THEN x.s ELSE PyRepr(x)

---------------------------------------------------------------------------
(* Column inference: ApiResourceContent._analyze_resource_structure *)

Cols(c) == [tag |-> "cols", cols |-> c]

\* `k1 in x and k2 in x[k1]` (short-circuit, left to right)
InNested(x, k1, k2) ==
    LET a == PyIn(k1, x) IN
    IF IsExc(a) THEN a
    ELSE IF ~a.b THEN VBool(FALSE)
    ELSE LET inner == PySubscript(x, k1) IN
         IF IsExc(inner) THEN inner ELSE PyIn(k2, inner)

\* `a in x and b in x`
InBoth(x, a, b) ==
    LET first == PyIn(a, x) IN
    IF IsExc(first) THEN first
    ELSE IF ~first.b THEN VBool(FALSE)
    ELSE PyIn(b, x)

\* line 301-302
NameColumn(sample_resource) ==
    LET t == InNested(sample_resource, "metadata", "name") IN
    IF IsExc(t) THEN t
    ELSE Cols(IF t.b THEN << <<"NAME", "metadata.name", 20>> >> ELSE <<>>)

\* A variant of PhaseColumn that looks at conditions[0].type before phase.
PhaseColumnConditionsFirst(status_fields) ==
    IF status_fields.tag = "dict"
       /\ "conditions" \in DOMAIN status_fields.d
       /\ status_fields.d["conditions"].tag = "list"
       /\ Len(status_fields.d["conditions"].l) > 0
       /\ status_fields.d["conditions"].l[1].tag = "dict"
       /\ "type" \in DOMAIN status_fields.d["conditions"].l[1].d
    THEN Cols(<< <<"STATUS", "status.conditions[0].type", 15>> >>)
    ELSE IF status_fields.tag = "dict" /\ "phase" \in DOMAIN status_fields.d
    THEN Cols(<< <<"STATUS", "status.phase", 15>> >>)
    ELSE Cols(<<>>)

\* lines 307-312: phase first, conditions[0].type only when phase is absent
PhaseColumn(status_fields) ==
    LET phase == PyIn("phase", status_fields) IN
    IF IsExc(phase) THEN phase
    ELSE IF phase.b THEN Cols(<< <<"STATUS", "status.phase", 15>> >>)
    ELSE LET hasConditions == PyIn("conditions", status_fields) IN
         IF IsExc(hasConditions) THEN hasConditions
         ELSE IF ~hasConditions.b THEN Cols(<<>>)
         ELSE LET conditions == PySubscript(status_fields, "conditions") IN
              IF IsExc(conditions) THEN conditions
              ELSE IF ~PyTruthy(conditions) THEN Cols(<<>>)
              ELSE LET first_condition == PyIndex(conditions, 0) IN
                   IF IsExc(first_condition) THEN first_condition
                   ELSE LET hasType == PyIn("type", first_condition) IN
                        IF IsExc(hasType) THEN hasType
                        ELSE Cols(IF hasType.b
                                  THEN << <<"STATUS", "status.conditions[0].type", 15>> >>
                                  ELSE <<>>)

\* lines 314-317
ReplicaColumn(status_fields) ==
    LET ready == InBoth(status_fields, "readyReplicas", "replicas") IN
    IF IsExc(ready) THEN ready
    ELSE IF ready.b
         THEN Cols(<< <<"READY", "status.readyReplicas/status.replicas", 10>> >>)
    ELSE LET available == InBoth(status_fields, "availableReplicas", "replicas") IN
         IF IsExc(available) THEN available
         ELSE Cols(IF available.b
                   THEN << <<"AVAILABLE", "status.availableReplicas/status.replicas", 12>> >>
                   ELSE <<>>)

\* lines 304-317
StatusColumns(sample_resource) ==
    LET hasStatus == PyIn("status", sample_resource) IN
    IF IsExc(hasStatus) THEN hasStatus
    ELSE IF ~hasStatus.b THEN Cols(<<>>)
    ELSE LET status_fields == PySubscript(sample_resource, "status") IN
         IF IsExc(status_fields) THEN status_fields
         ELSE LET p == PhaseColumn(status_fields) IN
              IF IsExc(p) THEN p
              ELSE LET r == ReplicaColumn(status_fields) IN
                   IF IsExc(r) THEN r ELSE Cols(p.cols \o r.cols)

\* A variant of SpecColumns that appends a column for every spec field it
\* knows, instead of stopping at the first match.
SpecColumnsEveryMatch(sample_resource) ==
    LET hasSpec == PyIn("spec", sample_resource) IN
    IF IsExc(hasSpec) THEN hasSpec
    ELSE IF ~hasSpec.b THEN Cols(<<>>)
    ELSE LET spec_fields == PySubscript(sample_resource, "spec") IN
         IF IsExc(spec_fields) THEN spec_fields
         ELSE LET hasType == PyIn("type", spec_fields) IN
              IF IsExc(hasType) THEN hasType
              ELSE Cols((IF hasType.b THEN << <<"TYPE", "spec.type", 15>> >> ELSE <<>>)
                        \o (IF PyIn("replicas", spec_fields).b
                            THEN << <<"REPLICAS", "spec.replicas", 10>> >> ELSE <<>>)
                        \o (IF PyIn("clusterIP", spec_fields).b
                            THEN << <<"CLUSTER-IP", "spec.clusterIP", 15>> >> ELSE <<>>))

\* lines 319-327: type, else replicas, else clusterIP
SpecColumns(sample_resource) ==
    LET hasSpec == PyIn("spec", sample_resource) IN
    IF IsExc(hasSpec) THEN hasSpec
    ELSE IF ~hasSpec.b THEN Cols(<<>>)
    ELSE LET spec_fields == PySubscript(sample_resource, "spec") IN
         IF IsExc(spec_fields) THEN spec_fields
         ELSE LET hasType == PyIn("type", spec_fields) IN
              IF IsExc(hasType) THEN hasType
              ELSE IF hasType.b THEN Cols(<< <<"TYPE", "spec.type", 15>> >>)
              ELSE IF PyIn("replicas", spec_fields).b
                   THEN Cols(<< <<"REPLICAS", "spec.replicas", 10>> >>)
              ELSE IF PyIn("clusterIP", spec_fields).b
                   THEN Cols(<< <<"CLUSTER-IP", "spec.clusterIP", 15>> >>)
              ELSE Cols(<<>>)

\* lines 329-330
DataColumn(sample_resource) ==
    LET hasData == PyIn("data", sample_resource) IN
    IF IsExc(hasData) THEN hasData
    ELSE Cols(IF hasData.b THEN << <<"DATA", "data_count", 8>> >> ELSE <<>>)

\* lines 332-333
AgeColumn(sample_resource) ==
    LET t == InNested(sample_resource, "metadata", "creationTimestamp") IN
    IF IsExc(t) THEN t
    ELSE Cols(IF t.b THEN << <<"AGE", "metadata.creationTimestamp", 10>> >> ELSE <<>>)

\* lines 335-339: KIND / VERSION when at most one column was produced
FallbackColumns(sample_resource, columns) ==
    IF Len(columns) <= 1
    THEN (IF PyIn("kind", sample_resource).b
          THEN << <<"KIND", "kind", 15>> >> ELSE <<>>)
         \o (IF PyIn("apiVersion", sample_resource).b
             THEN << <<"VERSION", "apiVersion", 15>> >> ELSE <<>>)
    ELSE <<>>

\* ApiResourceContent._analyze_resource_structure: Cols(columns), or Raise(e)
\* for the first exception of the checks in source order
_analyze_resource_structure(sample_resource) ==
    Eval(LAMBDA checks :
            LET raised == { i \in 1..5 : IsExc(checks[i]) } IN
            IF raised # {} THEN checks[Min(raised)]
            ELSE Eval(LAMBDA columns :
                         Cols(columns \o FallbackColumns(sample_resource, columns)),
                      checks[1].cols \o checks[2].cols \o checks[3].cols
                          \o checks[4].cols \o checks[5].cols),
         << NameColumn(sample_resource),
            StatusColumns(sample_resource),
            SpecColumns(sample_resource),
            DataColumn(sample_resource),
            AgeColumn(sample_resource) >>)

---------------------------------------------------------------------------
(* Field extraction: ApiResourceContent._extract_field_value / _calculate_age *)

\* datetime.fromisoformat(ts.replace('Z', '+00:00')) on the timestamps of the
\* model: seconds since the model's epoch for an aware timestamp, "naive" for
\* one without an offset, ValueError for anything else.
IsoTimestamps ==
    ("2024-01-01T00:00:00Z" :> [tag |-> "aware", secs |-> 0])
    @@ ("2024-01-02T00:00:00+00:00" :> [tag |-> "aware", secs |-> 86400])
    @@ ("2024-01-01T00:00:00" :> [tag |-> "naive", secs |-> 0])

fromisoformat(s) ==
    IF s \in DOMAIN IsoTimestamps THEN IsoTimestamps[s] ELSE Raise("ValueError")

\* A variant of _calculate_age that always counts whole minutes.
_calculate_age_in_minutes(creation_timestamp, wall) ==
    IF ~PyTruthy(creation_timestamp) THEN "Unknown"
    ELSE IF creation_timestamp.tag # "str" THEN "Unknown"
    ELSE Eval(LAMBDA created :
                 IF IsExc(created) \/ created.tag = "naive" THEN "Unknown"
                 ELSE ToString((wall - created.secs) \div 60) \o "m",
              fromisoformat(creation_timestamp.s))

\* lines 374-401; wall is datetime.now(timezone.utc) in seconds
_calculate_age(creation_timestamp, wall) ==
    IF ~PyTruthy(creation_timestamp) THEN "Unknown"
    ELSE IF creation_timestamp.tag # "str" THEN "Unknown"  \* .replace(tzinfo=...): AttributeError / TypeError
    ELSE Eval(LAMBDA created :
                 IF IsExc(created) THEN "Unknown"              \* ValueError
                 ELSE IF created.tag = "naive" THEN "Unknown"  \* aware - naive: TypeError
                 ELSE LET age_delta == wall - created.secs
                          days == age_delta \div 86400
                          seconds == age_delta % 86400
                          hours == seconds \div 3600
                          remainder == seconds % 3600
                          minutes == remainder \div 60
                      IN IF days > 0 THEN ToString(days) \o "d"
                         ELSE IF hours > 0 THEN ToString(hours) \o "h"
                         ELSE ToString(minutes) \o "m",
              fromisoformat(creation_timestamp.s))

\* `value.get(key, [])[index] if index < len(value.get(key, [])) else None`
IndexedStep(value, key, index) ==
    LET seq == PyGet(value, key, EmptyList) IN
    IF IsExc(seq) THEN seq
    ELSE LET n == PyLen(seq) IN
         IF IsExc(n) THEN n
         ELSE IF index < n.n THEN PyIndex(seq, index) ELSE VNone

\* lines 362-367: one part of the path applied to value
NavigateStep(value, part) ==
    IF StrContains("[", part) /\ StrContains("]", part)
    THEN LET key == PySplit(part, "[")[1]
             index == PyInt(PySplit(PySplit(part, "[")[2], "]")[1])
         IN IF IsExc(index) THEN index
            ELSE IndexedStep(value, key, index.n)
    ELSE PyGet(value, part, EmptyDict)

\* lines 361-370: the navigation loop over the dot-separated parts
RECURSIVE Navigate(_, _)
Navigate(value, parts) ==
    IF parts = <<>>
    THEN (IF value.tag = "dict" /\ DOMAIN value.d = {} THEN VStr("<none>") ELSE value)
    ELSE Eval(LAMBDA next :
                 IF IsExc(next) THEN next
                 ELSE IF next.tag = "none" THEN VStr("<none>")
                 ELSE Navigate(next, Tail(parts)),
              NavigateStep(value, Head(parts)))

\* `item.get(outer, {}).get(inner, default)`
GetNested(item, outer, inner, default) ==
    LET o == PyGet(item, outer, EmptyDict) IN
    IF IsExc(o) THEN o ELSE PyGet(o, inner, default)

\* A variant of Ratio that yields "0/0" unless both sides are present.
RatioBothOrNothing(item, field) ==
    LET a == GetNested(item, "status", field, VNone)
        total == GetNested(item, "status", "replicas", VNone)
    IN IF IsExc(a) THEN a
       ELSE IF IsExc(total) THEN total
       ELSE IF a.tag = "none" \/ total.tag = "none" THEN VStr("0/0")
       ELSE VStr(PyStr(a) \o "/" \o PyStr(total))

\* lines 347-354: f"{a}/{total}"
Ratio(item, field) ==
    LET a == GetNested(item, "status", field, VInt(0)) IN
    IF IsExc(a) THEN a
    ELSE LET total == GetNested(item, "status", "replicas", VInt(0)) IN
         IF IsExc(total) THEN total
         ELSE VStr(PyStr(a) \o "/" \o PyStr(total))

\* the body of the try block, lines 345-370
ExtractBody(item, path, wall) ==
    CASE path = "data_count" ->
            LET data == PyGet(item, "data", EmptyDict) IN
            IF IsExc(data) THEN data ELSE PyLen(data)
      [] path = "status.readyReplicas/status.replicas" -> Ratio(item, "readyReplicas")
      [] path = "status.availableReplicas/status.replicas" -> Ratio(item, "availableReplicas")
      [] path = "metadata.creationTimestamp" ->
            Eval(LAMBDA timestamp :
                    IF IsExc(timestamp) THEN timestamp
                    ELSE IF PyTruthy(timestamp) THEN VStr(_calculate_age(timestamp, wall))
                    ELSE VStr("Unknown"),
                 GetNested(item, "metadata", "creationTimestamp", VNone))
      [] OTHER -> Eval(LAMBDA parts : Navigate(item, parts), PySplit(path, "."))

\* line 371: the exception classes the handler catches
CaughtByExtract == {"KeyError", "IndexError", "TypeError", "ValueError"}

\* ApiResourceContent._extract_field_value: a value, or Raise(e) for an
\* exception the handler does not catch
_extract_field_value(item, path, wall) ==
    Eval(LAMBDA r : IF IsExc(r) /\ r.e \in CaughtByExtract THEN VStr("<none>") ELSE r,
         ExtractBody(item, path, wall))

---------------------------------------------------------------------------
(* The items and paths the pure functions are exercised on *)

Absent == [tag |-> "absent"]

\* x is a mapping with the key k
HasKey(x, k) == x.tag = "dict" /\ k \in DOMAIN x.d

\* the field k of the mapping x, Absent when x has none
Field(x, k) == IF HasKey(x, k) THEN x.d[k] ELSE Absent

\* The dict holding the fields of f that are present.
MkDict(f) == VDict([k \in {j \in DOMAIN f : f[j].tag # "absent"} |-> f[k]])

MetadataShapes ==
    { Absent, VNone,
      VDict("name" :> VStr("web")),
      VDict(("name" :> VStr("web")) @@ ("creationTimestamp" :> VStr("2024-01-01T00:00:00Z"))),
      VDict("creationTimestamp" :> VStr("yesterday")) }

ConditionShapes ==
    { Absent, VNone, EmptyList, VStr("Ready"),
      VList(<<VDict("type" :> VStr("Ready"))>>),
      VList(<<VDict("reason" :> VStr("Started"))>>),
      VDict("type" :> VStr("Ready")) }

StatusShapes ==
    { Absent, VNone, VStr("Bad"), VInt(3), EmptyList, EmptyDict,
      VDict(("readyReplicas" :> VInt(2)) @@ ("replicas" :> VInt(5))),
      VDict(("availableReplicas" :> VInt(1)) @@ ("replicas" :> VInt(5))),
      VDict("readyReplicas" :> VInt(2)),
      VDict(("readyReplicas" :> VInt(2)) @@ ("availableReplicas" :> VInt(1))
            @@ ("replicas" :> VInt(5))) }
    \cup { MkDict([phase |-> ph, conditions |-> c]) :
             ph \in {Absent, VNone, VStr("Running")}, c \in ConditionShapes }

SpecShapes ==
    { Absent,
      VDict(("type" :> VStr("ClusterIP")) @@ ("clusterIP" :> VStr("10.0.0.1"))),
      VDict("replicas" :> VInt(5)),
      VDict(("replicas" :> VInt(5)) @@ ("clusterIP" :> VStr("10.0.0.1"))),
      VDict("clusterIP" :> VStr("10.0.0.1")) }

DataShapes == { Absent, VDict(("a" :> VStr("1")) @@ ("b" :> VStr("2"))) }

KindShapes == { Absent, VStr("Pod") }

\* Items of every shape: mappings whose fields are absent, well-typed or
\* mistyped, and items that are no mapping at all.
SampleItems ==
    { MkDict([metadata |-> m, status |-> st, spec |-> sp, data |-> d,
              kind |-> k, apiVersion |-> Absent]) :
        m \in MetadataShapes \ {VDict("creationTimestamp" :> VStr("yesterday"))},
        st \in StatusShapes, sp \in SpecShapes,
        d \in DataShapes, k \in KindShapes }
    \cup { MkDict([metadata |-> m, spec |-> sp, data |-> d]) :
             m \in MetadataShapes, sp \in {Absent, VNone, VStr("type")},
             d \in {Absent, VNone, VInt(3)} }
    \cup { VDict(("kind" :> VStr("Pod")) @@ ("apiVersion" :> VStr("v1"))),
           VDict("apiVersion" :> VStr("v1")),
           VNone, VStr("status"), VInt(3), VList(<<VStr("metadata")>>) }

\* The paths column inference produces, and other well-formed paths.
ColumnPaths ==
    { "metadata.name", "status.phase", "status.conditions[0].type",
      "status.readyReplicas/status.replicas",
      "status.availableReplicas/status.replicas",
      "spec.type", "spec.replicas", "spec.clusterIP", "data_count",
      "metadata.creationTimestamp", "kind", "apiVersion" }

SamplePaths == ColumnPaths \cup { "status.conditions[1].type", "status.conditions[0]" }

\* datetime.now(): seconds since the model's epoch
WallClocks == { 90, 11400, 172800 }

---------------------------------------------------------------------------
(* ExtractSpec: the pure functions applied to one input *)

NoResult == [tag |-> "pending"]
NoModal == [kind |-> "none"]

ExtractInit ==
    /\ selected_api_resource = ""
    /\ current_namespace = "default"
    /\ views = <<>>
    /\ sample \in SampleItems
    /\ field_path \in SamplePaths
    /\ result = NoResult
    /\ stage = "input"
    /\ now = 0
    /\ modal = NoModal

Analyze ==
    /\ stage = "input"
    /\ result' = _analyze_resource_structure(sample)
    /\ stage' = "analyzed"
    /\ UNCHANGED <<sample, field_path, now, modal>>
    /\ UNCHANGED appvars

Extract ==
    /\ stage = "input"
    /\ \E wall \in WallClocks : result' = _extract_field_value(sample, field_path, wall)
    /\ stage' = "extracted"
    /\ UNCHANGED <<sample, field_path, now, modal>>
    /\ UNCHANGED appvars

ExtractNext == Analyze \/ Extract

ExtractSpec == ExtractInit /\ [][ExtractNext]_vars

---------------------------------------------------------------------------
(* The cluster as the table view sees it *)

MaxViews == 2    \* ApiResourceContent widgets created in one run
MaxPasses == 2   \* render passes of one widget
MaxTimers == 2   \* timers and queued timer callbacks of one widget

Kinds == {"pods", "deployments"}
Namespaces == {"default", "kube-system"}

\* KubeAPI.get_api_resources: the catalog entries, in discovery order
CatalogEntry(name, apiversion, namespaced, kind) ==
    [name |-> name, apiversion |-> apiversion, namespaced |-> namespaced, kind |-> kind]

FullCatalog ==
    << CatalogEntry("pods", "v1", TRUE, "Pod"),
       CatalogEntry("deployments", "apps/v1", TRUE, "Deployment") >>

\* what discovery can return: everything, or nothing (every query failed)
Catalogs == { FullCatalog, <<>> }

PodRunning ==
    VDict(("metadata" :> VDict("name" :> VStr("web")))
          @@ ("status" :> VDict(("phase" :> VStr("Running"))
                                @@ ("conditions" :> VList(<<VDict("type" :> VStr("Ready"))>>)))))
PodNoStatus == VDict("metadata" :> VDict("name" :> VStr("db")))
PodBadStatus ==
    VDict(("metadata" :> VDict("name" :> VStr("job"))) @@ ("status" :> VStr("Bad")))

\* the item collections a list call can return
Collections ==
    { <<>>, <<PodRunning, PodNoStatus>>, <<PodRunning, PodBadStatus>>, <<EmptyDict>> }

\* api_client.call_api(path, 'GET'): raises, or returns (body, status, headers)
Response(body) == [tag |-> "response", body |-> body]
NoResponse == [tag |-> "empty"]
Responses ==
    { Raise("ApiException"), NoResponse, Response(EmptyDict) }
    \cup { Response(VDict("items" :> VList(c))) : c \in Collections }

\* One render pass's environment: KubeAPI() succeeds or raises, what
\* discovery returns, what the list call returns, the wall clock.
Environments ==
    [ init : {VNone, Raise("ConfigException")},
      catalog : Catalogs,
      response : Responses,
      wall : {11400} ]

\* The environments the watch loop is explored under: each way a fetch fails,
\* and one that returns items.
WatchEnvironments ==
    { env \in Environments :
        env.response \in { Raise("ApiException"),
                           Response(VDict("items" :> VList(<<PodRunning, PodNoStatus>>))) } }

---------------------------------------------------------------------------
(* ApiResourceContent: the fetch *)

\* lines 269-280: the collection endpoint of the catalog entry
EndpointPath(resource_info, resource_name, namespace) ==
    IF resource_info.apiversion = "v1"
    THEN (IF resource_info.namespaced
          THEN VStr("/api/v1/namespaces/" \o namespace \o "/" \o resource_name)
          ELSE VStr("/api/v1/" \o resource_name))
    ELSE LET pieces == PySplit(resource_info.apiversion, "/") IN
         IF Len(pieces) < 2 THEN Raise("IndexError")
         ELSE IF resource_info.namespaced
              THEN VStr("/apis/" \o pieces[1] \o "/" \o pieces[2] \o "/namespaces/"
                        \o namespace \o "/" \o resource_name)
              ELSE VStr("/apis/" \o pieces[1] \o "/" \o pieces[2] \o "/" \o resource_name)

NoCall == [tag |-> "nocall"]

\* What one call of _get_resource_data did: the endpoint called and what the
\* call returned or raised ("" and NoCall when no call was made), and the
\* value returned to the render pass.
Fetched(path, response, data) == [path |-> path, response |-> response, data |-> data]

\* A variant of _get_resource_data that treats a listing without items as a
\* failure.
_get_resource_data_strict(resource_name, namespace, env) ==
    LET matches == { i \in 1..Len(env.catalog) : env.catalog[i].name = resource_name } IN
    IF matches = {} THEN Fetched("", NoCall, VNone)
    ELSE LET path == EndpointPath(env.catalog[Min(matches)], resource_name, namespace)
             items == IF IsExc(env.response) \/ env.response.tag = "empty" THEN VNone
                      ELSE PyGet(env.response.body, "items", EmptyList)
         IN IF IsExc(path) THEN Fetched("", NoCall, VNone)
            ELSE Fetched(path.s, env.response,
                         IF IsExc(items) \/ ~PyTruthy(items) THEN VNone ELSE items)

\* A variant of _get_resource_data that resolves the name to the last catalog
\* entry with that name.
_get_resource_data_last_entry(resource_name, namespace, env) ==
    LET matches == { i \in 1..Len(env.catalog) : env.catalog[i].name = resource_name } IN
    IF matches = {} THEN Fetched("", NoCall, VNone)
    ELSE LET resource_info == env.catalog[CHOOSE i \in matches : \A j \in matches : j <= i]
             path == EndpointPath(resource_info, resource_name, namespace)
         IN IF IsExc(path) THEN Fetched("", NoCall, VNone)
            ELSE IF IsExc(env.response) THEN Fetched(path.s, env.response, VNone)
            ELSE IF env.response.tag = "empty" THEN Fetched(path.s, env.response, EmptyList)
            ELSE LET items == PyGet(env.response.body, "items", EmptyList) IN
                 Fetched(path.s, env.response, IF IsExc(items) THEN VNone ELSE items)

\* ApiResourceContent._get_resource_data: the value returned is VNone (no
\* catalog entry, or any exception) or the value of the response's "items"
_get_resource_data(resource_name, namespace, env) ==
    LET matches == { i \in 1..Len(env.catalog) : env.catalog[i].name = resource_name } IN
    IF matches = {} THEN Fetched("", NoCall, VNone)
    ELSE LET resource_info == env.catalog[Min(matches)]
             path == EndpointPath(resource_info, resource_name, namespace)
         IN IF IsExc(path) THEN Fetched("", NoCall, VNone)
            ELSE IF IsExc(env.response) THEN Fetched(path.s, env.response, VNone)
            ELSE IF env.response.tag = "empty" THEN Fetched(path.s, env.response, EmptyList)
            ELSE LET items == PyGet(env.response.body, "items", EmptyList) IN
                 Fetched(path.s, env.response, IF IsExc(items) THEN VNone ELSE items)

---------------------------------------------------------------------------
(* ApiResourceContent: the watch session and the render pass *)

NoPass == [tag |-> "nopass"]

\* __init__ (lines 21-25) and the empty DataTable of compose
NewView ==
    [ status |-> "mounting",      \* mounting | mounted | removing | unmounted
      watch_enabled |-> FALSE,
      watch_timer |-> "None",     \* None | pending | fired | done: the timer the handle holds
      current_resource |-> "",
      timers_pending |-> 0,       \* timers of this widget that have not fired yet
      callbacks_queued |-> 0,     \* fired timers whose _refresh_data has not run yet
      columns |-> <<>>,           \* the DataTable's column labels
      rows |-> <<>>,              \* the DataTable's rows, each its cells in order
      cursor_row |-> 0,           \* the DataTable's cursor_coordinate
      cursor_column |-> 0,
      unhandled |-> "none",       \* the exception that left a key handler, if any
      passes |-> 0,               \* render passes run so far
      fetched |-> NoPass,         \* what the latest render pass fetched
      last_stop |-> "none",       \* the handler that ended the latest watch session
      last_tick |-> "none" ]      \* the latest _refresh_data: refreshed | ignored

\* A variant of _stop_watch that cancels the timer and leaves the flag set.
_stop_watch_keeping_flag(view) ==
    [view EXCEPT !.watch_timer = "None",
                 !.timers_pending = IF view.watch_timer = "pending" THEN @ - 1 ELSE @]

\* lines 209-214; Timer.stop() cancels a timer that has not fired, and does
\* not withdraw the callback of one that has
_stop_watch(view) ==
    [view EXCEPT !.watch_enabled = FALSE,
                 !.watch_timer = "None",
                 !.timers_pending = IF view.watch_timer = "pending" THEN @ - 1 ELSE @]

\* self.watch_timer = self.set_timer(1.0, self._refresh_data), lines 207 and
\* 221: a new timer, and the handle refers to it
set_timer(view) ==
    [view EXCEPT !.watch_timer = "pending",
                 !.timers_pending = @ + 1]

\* lines 203-207
_start_watch(view) == set_timer([view EXCEPT !.watch_enabled = TRUE])

\* A variant of ShouldRefresh that does not look at the flag.
ShouldRefreshUnconditionally(view) == view.current_resource # ""

\* line 218: the condition under which a tick refreshes
ShouldRefresh(view) == view.watch_enabled /\ view.current_resource # ""

\* lines 87-89: one cell, or the exception extraction let through
Cell(item, column, wall) == _extract_field_value(item, column[2], wall)

\* A variant of RenderRows that fills each row from the columns of its own
\* item.
RenderRowsPerItem(items, columns, wall) ==
    [ tag |-> "rows",
      rows |-> [i \in 1..Len(items) |->
                  LET own == { c \in 1..Len(columns) :
                                 items[i].tag = "dict"
                                 /\ PySplit(columns[c][2], ".")[1] \in DOMAIN items[i].d }
                      nth(j) == CHOOSE c \in own : Cardinality({ d \in own : d < c }) = j - 1
                  IN [j \in 1..Cardinality(own) |->
                        PyStr(Cell(items[i], columns[nth(j)], wall))]] ]

\* lines 85-90: the rows in order, or the exception of the first cell (row by
\* row, column by column) whose extraction raises
RenderRows(items, columns, wall) ==
    LET raised == { p \in (1..Len(items)) \X (1..Len(columns)) :
                      IsExc(Cell(items[p[1]], columns[p[2]], wall)) }
    IN IF raised # {}
       THEN LET first == CHOOSE p \in raised :
                           \A q \in raised : p[1] < q[1] \/ (p[1] = q[1] /\ p[2] <= q[2])
            IN Cell(items[first[1]], columns[first[2]], wall)
       ELSE [ tag |-> "rows",
              rows |-> [i \in 1..Len(items) |->
                          [j \in 1..Len(columns) |->
                              PyStr(Cell(items[i], columns[j], wall))]] ]

ColumnNames(columns) == [i \in 1..Len(columns) |-> columns[i][1]]

\* lines 99-103: the rows are cleared, the columns already added stay
ErrorTable(added, exc, fetched) ==
    [ columns |-> added \o <<"ERROR">>,
      rows |-> << <<"Error: " \o exc.e>> >>,
      fetched |-> fetched ]

\* lines 81-93: the columns and rows for the inferred columns
RenderItems(items, analysis, wall, fetched) ==
    IF IsExc(analysis) THEN ErrorTable(<<>>, analysis, fetched)
    ELSE IF analysis.cols # <<>>
    THEN Eval(LAMBDA rendered :
                 IF IsExc(rendered)
                 THEN ErrorTable(ColumnNames(analysis.cols), rendered, fetched)
                 ELSE [ columns |-> ColumnNames(analysis.cols),
                        rows |-> rendered.rows,
                        fetched |-> fetched ],
              RenderRows(items, analysis.cols, wall))
    ELSE [ columns |-> <<"NAME", "DETAILS">>,
           rows |-> << <<"No data", "No displayable columns found">> >>,
           fetched |-> fetched ]

\* lines 78-93: the columns are inferred from the first item
RenderData(items, wall, fetched) ==
    Eval(LAMBDA analysis : RenderItems(items, analysis, wall, fetched),
         _analyze_resource_structure(items[1]))

\* A variant of NoneFound that renders nothing.
NoneFoundBlank(resource_name, namespace, fetched) ==
    [ columns |-> <<>>, rows |-> <<>>, fetched |-> fetched ]

\* lines 94-97: nothing to show for the kind
NoneFound(resource_name, namespace, fetched) ==
    [ columns |-> <<"RESULT">>,
      rows |-> << <<"No " \o resource_name \o " found in namespace " \o namespace>> >>,
      fetched |-> fetched ]

\* lines 76-97: what the pass renders for what _get_resource_data returned
RenderFetched(resource_name, namespace, wall, got) ==
    LET fetched == [tag |-> "fetched", resource |-> resource_name, path |-> got.path,
                    response |-> got.response, data |-> got.data]
    IN IF PyTruthy(got.data)
       THEN RenderData(got.data.l, wall, fetched)
       ELSE NoneFound(resource_name, namespace, fetched)

\* lines 71-103: what the pass adds to the table
RenderPass(resource_name, namespace, env) ==
    IF IsExc(env.init) THEN ErrorTable(<<>>, env.init, [tag |-> "init_failed"])
    ELSE Eval(LAMBDA got : RenderFetched(resource_name, namespace, env.wall, got),
              _get_resource_data(resource_name, namespace, env))

\* DataTable.clear() removes the rows, keeps the columns and puts the cursor
\* back on the first cell
TableClear(view) == [view EXCEPT !.rows = <<>>, !.cursor_row = 0, !.cursor_column = 0]

\* A variant of _populate_output that ends the watch session when the fetch
\* fails.
_populate_output_ending_watch(view, resource_name, namespace, env) ==
    Eval(LAMBDA pass :
            [TableClear(view) EXCEPT
                !.columns = @ \o pass.columns,
                !.rows = pass.rows,
                !.fetched = pass.fetched,
                !.passes = @ + 1,
                !.watch_enabled = @ /\ pass.fetched.tag = "fetched"
                                    /\ pass.fetched.data # VNone],
         RenderPass(resource_name, namespace, env))

\* A variant of _populate_output that adds the rows of the pass below the rows
\* the table already shows.
_populate_output_keeping_rows(view, resource_name, namespace, env) ==
    Eval(LAMBDA pass :
            [view EXCEPT !.columns = @ \o pass.columns,
                         !.rows = @ \o pass.rows,
                         !.fetched = pass.fetched,
                         !.passes = @ + 1],
         RenderPass(resource_name, namespace, env))

\* ApiResourceContent._populate_output, lines 63-103
_populate_output(view, resource_name, namespace, env) ==
    LET stopped == IF view.watch_enabled /\ view.current_resource # resource_name
                   THEN [_stop_watch(view) EXCEPT !.last_stop = "_populate_output"]
                   ELSE view
    IN Eval(LAMBDA pass :
                [TableClear(stopped) EXCEPT !.columns = @ \o pass.columns,
                                            !.rows = pass.rows,
                                            !.fetched = pass.fetched,
                                            !.passes = @ + 1],
            RenderPass(resource_name, namespace, env))

---------------------------------------------------------------------------
(* Spec: the kind list and the table views it mounts, with their watch loops *)

Init ==
    /\ selected_api_resource = ""
    /\ current_namespace = "default"
    /\ views = <<>>
    /\ sample = VNone
    /\ field_path = ""
    /\ result = NoResult
    /\ stage = "idle"
    /\ now = 0
    /\ modal = NoModal

\* The app dispatches the next key only after the removals and mounts the
\* previous one started have completed.
Settled == \A i \in DOMAIN views : views[i].status \in {"mounted", "unmounted"}

\* ApiResourceList.on_key, enter on the option `selected` (lines 53-70):
\* every child of #main_content is removed and a new ApiResourceContent mounted.
\* The option texts are the catalog names; none has the "Option('...')" wrapping
\* or a " (" suffix, so lines 58-60 leave them as they are.
SelectKind(selected, limit) ==
    /\ Settled
    /\ Len(views) < limit
    /\ selected # ""
    /\ selected_api_resource' = selected
    /\ views' = [i \in 1..(Len(views) + 1) |->
                   IF i > Len(views) THEN NewView
                   ELSE IF views[i].status = "mounted"
                        THEN [views[i] EXCEPT !.status = "removing"]
                        ELSE views[i]]
    /\ UNCHANGED <<current_namespace, fvars>>

\* ApiResourceContent.on_mount, lines 31-49; envs: what the pass can meet
OnMount(i, envs) ==
    /\ views[i].status = "mounting"
    /\ views[i].passes < MaxPasses
    /\ IF selected_api_resource # ""
       THEN \E env \in envs :
            \E populated \in {_populate_output(views[i], selected_api_resource,
                                                current_namespace, env)} :
              views' = [views EXCEPT ![i] = [populated EXCEPT !.status = "mounted"]]
       ELSE views' = [views EXCEPT ![i] =
                  [TableClear(views[i]) EXCEPT !.columns = @ \o <<"STATUS">>,
                                               !.rows = << <<"No resource selected">> >>,
                                               !.status = "mounted"]]
    /\ UNCHANGED <<selected_api_resource, current_namespace, fvars>>

\* ApiResourceContent.on_unmount, lines 51-53; the widget's DataTable goes
\* with it
OnUnmount(i) ==
    /\ views[i].status = "removing"
    /\ views' = [views EXCEPT ![i] =
           [_stop_watch(views[i]) EXCEPT
                !.status = "unmounted",
                !.columns = <<>>,
                !.rows = <<>>,
                !.fetched = NoPass,
                !.last_stop = IF views[i].watch_enabled THEN "on_unmount" ELSE @]]
    /\ UNCHANGED <<selected_api_resource, current_namespace, fvars>>

\* ApiResourceContent.action_watch, lines 180-201 (key w); lines 187-189 leave
\* a catalog name as it is
action_watch(i) ==
    /\ Settled
    /\ views[i].status = "mounted"
    /\ selected_api_resource # ""
    /\ IF views[i].watch_enabled
       THEN views' = [views EXCEPT ![i] =
                [_stop_watch(views[i]) EXCEPT !.last_stop = "action_watch"]]
       ELSE /\ views[i].timers_pending + views[i].callbacks_queued < MaxTimers
            /\ views' = [views EXCEPT ![i] =
                   _start_watch([views[i] EXCEPT !.current_resource = selected_api_resource])]
    /\ UNCHANGED <<selected_api_resource, current_namespace, fvars>>

\* A timer set by set_timer(1.0, ...) expires: its callback is queued on the
\* widget.  held: the timer is the one self.watch_timer refers to.
TimerFire(i, held) ==
    /\ views[i].status # "mounting"
    /\ IF held THEN views[i].watch_timer = "pending"
       ELSE views[i].timers_pending > (IF views[i].watch_timer = "pending" THEN 1 ELSE 0)
    /\ views' = [views EXCEPT ![i] =
           [@ EXCEPT !.timers_pending = @ - 1,
                     !.callbacks_queued = @ + 1,
                     !.watch_timer = IF held THEN "fired" ELSE @]]
    /\ UNCHANGED <<selected_api_resource, current_namespace, fvars>>

\* A variant of _refresh_data that polls the kind selected in the list at the
\* time of the tick.
_refresh_data_of_selected_kind(i, held, envs) ==
    /\ IF held THEN views[i].watch_timer = "fired"
       ELSE views[i].callbacks_queued > (IF views[i].watch_timer = "fired" THEN 1 ELSE 0)
    /\ LET view == [views[i] EXCEPT !.callbacks_queued = @ - 1,
                                    !.watch_timer = IF held THEN "done" ELSE @]
       IN IF ShouldRefresh(view)
          THEN /\ view.passes < MaxPasses
               /\ \E env \in envs :
                  \E populated \in {_populate_output(view, selected_api_resource,
                                                      current_namespace, env)} :
                    views' = [views EXCEPT ![i] =
                        [set_timer(populated) EXCEPT !.last_tick = "refreshed"]]
          ELSE views' = [views EXCEPT ![i] = [view EXCEPT !.last_tick = "ignored"]]
    /\ UNCHANGED <<selected_api_resource, current_namespace, fvars>>

\* ApiResourceContent._refresh_data, lines 216-221, run for a fired timer
_refresh_data(i, held, envs) ==
    /\ IF held THEN views[i].watch_timer = "fired"
       ELSE views[i].callbacks_queued > (IF views[i].watch_timer = "fired" THEN 1 ELSE 0)
    /\ LET view == [views[i] EXCEPT !.callbacks_queued = @ - 1,
                                    !.watch_timer = IF held THEN "done" ELSE @]
       IN IF ShouldRefresh(view)
          THEN /\ view.passes < MaxPasses
               /\ \E env \in envs :
                  \E populated \in {_populate_output(view, view.current_resource,
                                                      current_namespace, env)} :
                    views' = [views EXCEPT ![i] =
                        [set_timer(populated) EXCEPT !.last_tick = "refreshed"]]
          ELSE views' = [views EXCEPT ![i] = [view EXCEPT !.last_tick = "ignored"]]
    /\ UNCHANGED <<selected_api_resource, current_namespace, fvars>>

\* Namespace.action_select / on_option_list_option_selected, lines 28-51
NamespaceSelect(selected) ==
    /\ Settled
    /\ current_namespace' = selected
    /\ UNCHANGED <<selected_api_resource, views, fvars>>

Next ==
    \/ \E k \in Kinds : SelectKind(k, MaxViews)
    \/ \E i \in DOMAIN views : OnMount(i, WatchEnvironments)
    \/ \E i \in DOMAIN views : OnUnmount(i)
    \/ \E i \in DOMAIN views : action_watch(i)
    \/ \E i \in DOMAIN views, held \in BOOLEAN : TimerFire(i, held)
    \/ \E i \in DOMAIN views, held \in BOOLEAN : _refresh_data(i, held, WatchEnvironments)

Spec == Init /\ [][Next]_vars

\* The watch loop under fair scheduling: a pending timer of the session
\* expires, and the callback of an expired timer runs.
FairSpec ==
    /\ Spec
    /\ \A i \in 1..MaxViews :
         /\ WF_vars(i \in DOMAIN views /\ TimerFire(i, TRUE))
         /\ WF_vars(i \in DOMAIN views /\ _refresh_data(i, TRUE, WatchEnvironments))

---------------------------------------------------------------------------
(* TableSpec: one table view and the namespace picker, under every         *)
(* environment of a render pass                                            *)

TableNext ==
    \/ \E k \in Kinds : SelectKind(k, 1)
    \/ \E i \in DOMAIN views : OnMount(i, Environments)
    \/ \E i \in DOMAIN views : action_watch(i)
    \/ \E i \in DOMAIN views, held \in BOOLEAN : TimerFire(i, held)
    \/ \E i \in DOMAIN views, held \in BOOLEAN : _refresh_data(i, held, Environments)
    \/ \E ns \in Namespaces : NamespaceSelect(ns)

TableSpec == Init /\ [][TableNext]_vars

---------------------------------------------------------------------------
(* RenderSpec: one render pass over a fetched collection *)

MaxItems == 3   \* items of one fetched collection

PodPending ==
    VDict(("metadata" :> VDict(("name" :> VStr("cache"))
                               @@ ("creationTimestamp" :> VStr("2024-01-01T00:00:00Z"))))
          @@ ("status" :> VDict("conditions" :> VList(<<VDict("type" :> VStr("PodScheduled"))>>))))
DeployFull ==
    VDict(("metadata" :> VDict(("name" :> VStr("api"))
                               @@ ("creationTimestamp" :> VStr("2024-01-01T00:00:00Z"))))
          @@ ("status" :> VDict(("readyReplicas" :> VInt(2)) @@ ("replicas" :> VInt(5))))
          @@ ("spec" :> VDict("replicas" :> VInt(5))))
ConfigMap ==
    VDict(("metadata" :> VDict("name" :> VStr("settings")))
          @@ ("data" :> VDict(("a" :> VStr("1")) @@ ("b" :> VStr("2")))))

ListedItems ==
    { PodRunning, PodNoStatus, PodBadStatus, PodPending, DeployFull, ConfigMap, EmptyDict }

\* the collections of at most MaxItems items
ListedCollections == UNION { [1..n -> ListedItems] : n \in 0..MaxItems }

RenderInit ==
    /\ selected_api_resource = "pods"
    /\ current_namespace = "default"
    /\ views = <<>>
    /\ sample \in { VList(c) : c \in ListedCollections }
    /\ field_path = ""
    /\ result = NoResult
    /\ stage = "listed"
    /\ now = 0
    /\ modal = NoModal

\* lines 76-97 of _populate_output on the collection the list call returned
Render ==
    /\ stage = "listed"
    /\ \E wall \in WallClocks :
         result' = RenderFetched(selected_api_resource, current_namespace, wall,
                       Fetched("/api/v1/namespaces/default/pods",
                               Response(VDict("items" :> sample)), sample))
    /\ stage' = "rendered"
    /\ UNCHANGED <<sample, field_path, now, modal>>
    /\ UNCHANGED appvars

RenderSpec == RenderInit /\ [][Render]_vars

---------------------------------------------------------------------------
(* Properties of the watch loop (Spec, FairSpec) *)

\* C1: when the kind list switches to another kind, the table view that was
\* watching is torn down with its watch flag cleared and the timer its handle
\* held cancelled, no later step fetches, renders or schedules for it, and at
\* most one view has an active watch session at any time.
KindSwitchTearsDownWatch ==
    [][ /\ Cardinality({ i \in DOMAIN views' : views'[i].watch_enabled }) <= 1
        /\ \A i \in DOMAIN views :
             /\ (views[i].status = "removing" /\ views'[i].status = "unmounted") =>
                    /\ ~views'[i].watch_enabled
                    /\ views'[i].watch_timer = "None"
                    /\ (views[i].watch_timer = "pending" =>
                           views'[i].timers_pending = views[i].timers_pending - 1)
             /\ views[i].status = "unmounted" =>
                    /\ views'[i].status = "unmounted"
                    /\ ~views'[i].watch_enabled
                    /\ views'[i].passes = views[i].passes
                    /\ views'[i].fetched = views[i].fetched
                    /\ views'[i].rows = views[i].rows
                    /\ views'[i].timers_pending <= views[i].timers_pending ]_vars

\* C1 happens: a view watching pods was torn down by a switch to deployments,
\* and the view mounted for deployments is watching.
KindSwitchedWhileWatching ==
    \E i, j \in DOMAIN views :
        /\ views[i].status = "unmounted"
        /\ views[i].last_stop = "on_unmount"
        /\ views[i].current_resource = "pods"
        /\ views[j].status = "mounted"
        /\ views[j].watch_enabled
        /\ views[j].current_resource = "deployments"

\* C2: within one table view at most one refresh timer is pending, whatever
\* the interleaving of watch toggles, timer expiries and tick callbacks.
AtMostOnePendingTimer ==
    \A i \in DOMAIN views : views[i].timers_pending <= 1

\* C3: a tick of a stopped session (the flag is clear when _refresh_data runs)
\* fetches nothing, renders nothing and schedules no timer; and a polled
\* render pass happens only while the flag is set.
StoppedTickDoesNothing ==
    [][ \A i \in DOMAIN views :
          /\ (~views[i].watch_enabled
              /\ views'[i].callbacks_queued < views[i].callbacks_queued) =>
                 /\ views'[i].passes = views[i].passes
                 /\ views'[i].fetched = views[i].fetched
                 /\ views'[i].columns = views[i].columns
                 /\ views'[i].rows = views[i].rows
                 /\ views'[i].timers_pending = views[i].timers_pending
                 /\ views'[i].watch_timer = views[i].watch_timer
                 /\ ~views'[i].watch_enabled
          /\ (views[i].status # "mounting" /\ views'[i].passes > views[i].passes) =>
                 views[i].watch_enabled ]_vars

\* C3 happens: the w key stopped the session of a mounted view and the callback
\* of a timer that had already expired ran afterwards.
StoppedSessionTicked ==
    \E i \in DOMAIN views :
        /\ views[i].status = "mounted"
        /\ views[i].last_stop = "action_watch"
        /\ views[i].last_tick = "ignored"
        /\ ~views[i].watch_enabled
        /\ views[i].callbacks_queued = 0
        /\ views[i].passes = 1

\* the latest render pass could not fetch: the client could not be built, the
\* catalog has no entry for the kind, or the list call raised
FetchFailed(fetched) ==
    \/ fetched.tag = "init_failed"
    \/ fetched.tag = "fetched" /\ fetched.data = VNone

---------------------------------------------------------------------------
(* Properties of the rendered table (TableSpec, RenderSpec) *)

\* C5: when the fetch of the selected kind fails (the client cannot be built
\* or the list call raises), the table is exactly one row that carries the
\* error text.
FetchFailureShowsErrorRow ==
    \A i \in DOMAIN views :
        /\ (views[i].fetched.tag = "init_failed" =>
               views[i].rows = << <<"Error: ConfigException">> >>)
        /\ (views[i].fetched.tag = "fetched" /\ IsExc(views[i].fetched.response) =>
               views[i].rows = << <<"Error: " \o views[i].fetched.response.e>> >>)

\* C7: after every render pass the table has at least one column and at least
\* one row, and an empty collection is rendered as a single row.
TableNeverBlank ==
    \A i \in DOMAIN views :
        views[i].passes > 0 =>
            /\ Len(views[i].columns) >= 1
            /\ Len(views[i].rows) >= 1
            /\ \A r \in 1..Len(views[i].rows) : Len(views[i].rows[r]) >= 1
            /\ (views[i].fetched.tag = "fetched" /\ views[i].fetched.data = EmptyList =>
                   Len(views[i].rows) = 1)

\* C7 happens: a polled pass (the second of the view) rendered an empty
\* collection.
EmptyCollectionPolled ==
    \E i \in DOMAIN views :
        /\ views[i].passes = 2
        /\ views[i].last_tick = "refreshed"
        /\ views[i].fetched.tag = "fetched"
        /\ views[i].fetched.data = EmptyList
        /\ Len(views[i].rows) = 1

\* the list call returned a body whose "items" is empty
ZeroItems(response) ==
    /\ response.tag = "response"
    /\ "items" \in DOMAIN response.body.d
    /\ response.body.d["items"] = EmptyList

\* C8: a render pass whose list call, on the namespaced endpoint of the current
\* namespace, returns zero items gets an empty sequence (not None) from the
\* fetch and leaves exactly one row "No {kind} found in namespace {ns}".
EmptyListingShowsNoneFound ==
    [][ \A i \in DOMAIN views :
          (/\ views'[i].passes = views[i].passes + 1
           /\ views'[i].fetched.tag = "fetched"
           /\ ZeroItems(views'[i].fetched.response)) =>
              /\ StrContains("/namespaces/" \o current_namespace \o "/"
                                 \o views'[i].fetched.resource,
                             views'[i].fetched.path)
              /\ views'[i].fetched.data = EmptyList
              /\ views'[i].rows =
                    << <<"No " \o views'[i].fetched.resource
                              \o " found in namespace " \o current_namespace>> >> ]_vars

\* C8 happens: deployments were listed in kube-system and there were none.
NoDeploymentsInKubeSystem ==
    \E i \in DOMAIN views :
        /\ views[i].fetched.tag = "fetched"
        /\ ZeroItems(views[i].fetched.response)
        /\ views[i].fetched.path = "/apis/apps/v1/namespaces/kube-system/deployments"
        /\ views[i].rows = << <<"No deployments found in namespace kube-system">> >>

\* every mapping-valued field of the item is a mapping, and status.conditions
\* a list of mappings
WellTyped(item) ==
    /\ item.tag = "dict"
    /\ \A k \in DOMAIN item.d \cap {"metadata", "status", "spec", "data"} :
         item.d[k].tag = "dict"
    /\ ("status" \in DOMAIN item.d /\ "conditions" \in DOMAIN item.d["status"].d) =>
         /\ item.d["status"].d["conditions"].tag = "list"
         /\ \A n \in 1..Len(item.d["status"].d["conditions"].l) :
              item.d["status"].d["conditions"].l[n].tag = "dict"

\* the top-level field of the item a column path reads
FieldOf(path) == IF path = "data_count" THEN "data" ELSE PySplit(path, ".")[1]

\* what a cell holds when its field is absent: "<none>", and the defaults of
\* the AGE, DATA and replica-ratio columns
Placeholders == {"<none>", "Unknown", "0", "0/0"}

\* C9: the columns of a pass are those inferred from the first item of the
\* collection (each reads a field the first item has); every row has one cell
\* per column; and where a later item lacks a column's field its cell is a
\* placeholder.
RowsShareFirstItemColumns ==
    (stage = "rendered" /\ Len(sample.l) > 0
     /\ \A r \in 1..Len(sample.l) : WellTyped(sample.l[r])) =>
        \A analysis \in {_analyze_resource_structure(sample.l[1])} :
            /\ ~IsExc(analysis)
            /\ analysis.cols # <<>> =>
                 /\ result.columns = ColumnNames(analysis.cols)
                 /\ \A c \in 1..Len(analysis.cols) :
                      FieldOf(analysis.cols[c][2]) \in DOMAIN sample.l[1].d
                 /\ Len(result.rows) = Len(sample.l)
                 /\ \A r \in 1..Len(sample.l) :
                      /\ Len(result.rows[r]) = Len(analysis.cols)
                      /\ \A c \in 1..Len(analysis.cols) :
                           FieldOf(analysis.cols[c][2]) \notin DOMAIN sample.l[r].d =>
                               result.rows[r][c] \in Placeholders

\* C9 happens: the second item has no status, the first has one.
LaterItemLacksField ==
    /\ stage = "rendered"
    /\ sample = VList(<<PodRunning, PodNoStatus>>)
    /\ result.columns = <<"NAME", "STATUS">>
    /\ result.rows = << <<"web", "Running">>, <<"db", "<none>">> >>

---------------------------------------------------------------------------
(* AgeSpec: the AGE cell of one item at one reading of the clock *)

\* creationTimestamp values: absent, None, empty, aware, naive, not ISO, no string
TimestampShapes ==
    { Absent, VNone, VStr(""), VStr("2024-01-01T00:00:00Z"),
      VStr("2024-01-02T00:00:00+00:00"), VStr("2024-01-01T00:00:00"),
      VStr("yesterday"), VInt(1704067200), EmptyList }

AgedItems ==
    { MkDict([metadata |-> MkDict([name |-> VStr("web"), creationTimestamp |-> ts])]) :
        ts \in TimestampShapes }
    \cup { EmptyDict }

\* readings of datetime.now(timezone.utc) around the unit boundaries, in
\* seconds since the model's epoch
AgeClocks ==
    { 0, 59, 60, 90, 119, 3599, 3600, 7199, 11400, 86399, 86400, 86459, 86460,
      90000, 97800, 172799, 172800, 259200 }

AgeInit ==
    /\ selected_api_resource = ""
    /\ current_namespace = "default"
    /\ views = <<>>
    /\ sample \in AgedItems
    /\ field_path = "metadata.creationTimestamp"
    /\ result = NoResult
    /\ stage = "input"
    /\ now \in AgeClocks
    /\ modal = NoModal

\* lines 355-357: the AGE cell of the item
Age ==
    /\ stage = "input"
    /\ result' = _extract_field_value(sample, field_path, now)
    /\ stage' = "extracted"
    /\ UNCHANGED <<sample, field_path, now, modal>>
    /\ UNCHANGED appvars

AgeSpec == AgeInit /\ [][Age]_vars

\* the elapsed seconds in the largest unit that is at least one
LargestUnit(elapsed) ==
    IF elapsed >= 86400 THEN ToString(elapsed \div 86400) \o "d"
    ELSE IF elapsed >= 3600 THEN ToString(elapsed \div 3600) \o "h"
    ELSE ToString(elapsed \div 60) \o "m"

\* C14: the AGE cell is the time elapsed since creation in the largest unit
\* that is at least one: days, else hours, else minutes; for an absent or
\* unparsable timestamp it is "Unknown", and never "<none>".
AgeInLargestUnit ==
    stage = "extracted" =>
        LET timestamp == Field(Field(sample, "metadata"), "creationTimestamp")
            parsed == timestamp.tag = "str" /\ timestamp.s \in DOMAIN IsoTimestamps
        IN /\ result # VStr("<none>")
           /\ ~parsed => result = VStr("Unknown")
           /\ (parsed /\ IsoTimestamps[timestamp.s].tag = "aware"
               /\ now >= IsoTimestamps[timestamp.s].secs) =>
                 result = VStr(LargestUnit(now - IsoTimestamps[timestamp.s].secs))

\* C14 happens: 90 seconds, 3 h 10 min and 2 days after creation, and an
\* unparsable timestamp.
AgesAtUnitBoundaries ==
    /\ stage = "extracted"
    /\ LET timestamp == Field(Field(sample, "metadata"), "creationTimestamp") IN
       \/ timestamp = VStr("2024-01-01T00:00:00Z") /\ now = 90 /\ result = VStr("1m")
       \/ timestamp = VStr("2024-01-01T00:00:00Z") /\ now = 11400 /\ result = VStr("3h")
       \/ timestamp = VStr("2024-01-02T00:00:00+00:00") /\ now = 259200
            /\ result = VStr("2d")

\* C12: a pass over a non-empty collection of well-typed items never renders
\* fewer than two columns: where the shape checks give at most one column,
\* KIND and VERSION are appended for those of kind and apiVersion the first
\* item has.
NeverFewerThanTwoColumns ==
    (stage = "rendered" /\ Len(sample.l) > 0
     /\ \A r \in 1..Len(sample.l) : WellTyped(sample.l[r])) =>
        /\ Len(result.columns) >= 2
        /\ \A analysis \in {_analyze_resource_structure(sample.l[1])} :
             (~IsExc(analysis) /\ "kind" \in DOMAIN sample.l[1].d
              /\ \A c \in 1..Len(analysis.cols) : analysis.cols[c][1] # "KIND") =>
                 Len(analysis.cols) >= 2

---------------------------------------------------------------------------
(* Properties of field extraction and column inference (ExtractSpec) *)

\* C6: _extract_field_value never raises for a well-formed path, whatever the
\* shapes of the fields of the item.
ExtractNeverRaises ==
    (stage = "extracted" /\ sample.tag = "dict") => ~IsExc(result)

\* the STATUS columns of an inferred column list
StatusPaths(columns) ==
    { columns[c][2] : c \in { d \in 1..Len(columns) : columns[d][1] = "STATUS" } }

\* C10: for a sample whose status has a phase, column inference yields exactly
\* one STATUS column, read from status.phase, whether or not the status has
\* conditions; conditions[0].type is the source only when the phase is absent
\* and the first condition has a type.
PhaseBeforeConditions ==
    (/\ stage = "analyzed"
     /\ ~IsExc(result)
     /\ sample.tag = "dict"
     /\ "status" \in DOMAIN sample.d
     /\ sample.d["status"].tag = "dict") =>
        LET status_fields == sample.d["status"].d
            statusColumns == { c \in 1..Len(result.cols) : result.cols[c][1] = "STATUS" }
            typedConditions ==
                /\ "conditions" \in DOMAIN status_fields
                /\ status_fields["conditions"].tag = "list"
                /\ Len(status_fields["conditions"].l) > 0
                /\ status_fields["conditions"].l[1].tag = "dict"
                /\ "type" \in DOMAIN status_fields["conditions"].l[1].d
        IN /\ Cardinality(statusColumns) <= 1
           /\ ("phase" \in DOMAIN status_fields =>
                  StatusPaths(result.cols) = {"status.phase"} /\ Cardinality(statusColumns) = 1)
           /\ ("phase" \notin DOMAIN status_fields /\ typedConditions =>
                  StatusPaths(result.cols) = {"status.conditions[0].type"})
           /\ ("status.conditions[0].type" \in StatusPaths(result.cols) =>
                  "phase" \notin DOMAIN status_fields)

\* C10 happens: the sample has both a phase and a typed first condition.
SampleWithPhaseAndConditions ==
    /\ stage = "analyzed"
    /\ ~IsExc(result)
    /\ sample.tag = "dict"
    /\ "status" \in DOMAIN sample.d
    /\ sample.d["status"] = VDict(("phase" :> VStr("Running"))
                                  @@ ("conditions" :> VList(<<VDict("type" :> VStr("Ready"))>>)))
    /\ StatusPaths(result.cols) = {"status.phase"}

\* the place of a column name in the fixed order of the inferred columns
ColumnRank(name) ==
    CASE name = "NAME" -> 1
      [] name = "STATUS" -> 2
      [] name \in {"READY", "AVAILABLE"} -> 3
      [] name \in {"TYPE", "REPLICAS", "CLUSTER-IP"} -> 4
      [] name = "DATA" -> 5
      [] name = "AGE" -> 6
      [] name = "KIND" -> 7
      [] name = "VERSION" -> 8
      [] OTHER -> 0

\* C11: the inferred columns follow the fixed order NAME, STATUS,
\* READY|AVAILABLE, TYPE|REPLICAS|CLUSTER-IP, DATA, AGE, KIND, VERSION, with at
\* most one column of each place (so no name twice, READY excludes AVAILABLE,
\* one spec column at most, the first match in source order); and each shape
\* check decides on its own fields alone, whatever the earlier checks matched.
ColumnsFollowFixedOrder ==
    (stage = "analyzed" /\ ~IsExc(result)) =>
        LET names == ColumnNames(result.cols)
            has(n) == \E c \in 1..Len(names) : names[c] = n
            metadata == Field(sample, "metadata")
            status == Field(sample, "status")
            spec == Field(sample, "spec")
        IN /\ \A c \in 1..Len(names) : ColumnRank(names[c]) > 0
           /\ \A c \in 1..(Len(names) - 1) :
                ColumnRank(names[c]) < ColumnRank(names[c + 1])
           /\ metadata.tag \in {"dict", "absent"} =>
                /\ has("NAME") <=> HasKey(metadata, "name")
                /\ has("AGE") <=> HasKey(metadata, "creationTimestamp")
           /\ status.tag \in {"dict", "absent"} =>
                /\ has("READY") <=>
                     (HasKey(status, "readyReplicas") /\ HasKey(status, "replicas"))
                /\ has("AVAILABLE") <=>
                     (/\ ~HasKey(status, "readyReplicas")
                      /\ HasKey(status, "availableReplicas")
                      /\ HasKey(status, "replicas"))
           /\ spec.tag \in {"dict", "absent"} =>
                /\ has("TYPE") <=> HasKey(spec, "type")
                /\ has("REPLICAS") <=> (~HasKey(spec, "type") /\ HasKey(spec, "replicas"))
                /\ has("CLUSTER-IP") <=>
                     (/\ ~HasKey(spec, "type") /\ ~HasKey(spec, "replicas")
                      /\ HasKey(spec, "clusterIP"))
           /\ sample.tag = "dict" => (has("DATA") <=> HasKey(sample, "data"))

\* C11 happens: a sample matching two replica checks, two spec checks, data
\* and both metadata checks gets one column of each place.
SampleMatchingSeveralChecks ==
    /\ stage = "analyzed"
    /\ ~IsExc(result)
    /\ HasKey(Field(sample, "status"), "readyReplicas")
    /\ HasKey(Field(sample, "status"), "availableReplicas")
    /\ HasKey(Field(sample, "spec"), "type")
    /\ HasKey(Field(sample, "spec"), "clusterIP")
    /\ ColumnNames(result.cols) = <<"NAME", "READY", "TYPE", "DATA", "AGE">>

\* the replica field a ratio path reads before the slash
RatioField(path) ==
    IF path = "status.readyReplicas/status.replicas" THEN "readyReplicas"
    ELSE "availableReplicas"

\* one side of a ratio: the field's value, 0 when the status or the field is absent
RatioSide(item, field) ==
    IF HasKey(Field(item, "status"), field)
    THEN PyStr(Field(item, "status").d[field]) ELSE "0"

\* C13: a replica-ratio path yields "<a>/<b>", a the ready (or available)
\* count and b the replicas count of the status, each side on its own 0 when
\* the status or that field is absent.
RatioSidesDefaultToZero ==
    (/\ stage = "extracted"
     /\ field_path \in {"status.readyReplicas/status.replicas",
                        "status.availableReplicas/status.replicas"}
     /\ sample.tag = "dict"
     /\ Field(sample, "status").tag \in {"dict", "absent"}) =>
        result = VStr(RatioSide(sample, RatioField(field_path)) \o "/"
                      \o RatioSide(sample, "replicas"))

\* C13 happens: 2/5 with both sides, 2/0 and 0/5 with one, 0/0 with no status.
RatioWithOneSideMissing ==
    /\ stage = "extracted"
    /\ sample.tag = "dict"
    /\ \/ /\ field_path = "status.readyReplicas/status.replicas"
          /\ Field(sample, "status") = VDict("readyReplicas" :> VInt(2))
          /\ result = VStr("2/0")
       \/ /\ field_path = "status.availableReplicas/status.replicas"
          /\ Field(sample, "status")
               = VDict(("readyReplicas" :> VInt(2)) @@ ("replicas" :> VInt(5)))
          /\ result = VStr("0/5")

---------------------------------------------------------------------------
(* The create modal: CreateResource *)

UpperCase == "ABCDEFGHIJKLMNOPQRSTUVWXYZ"
LowerCase == "abcdefghijklmnopqrstuvwxyz"

\* str.lower() on one character
LowerChar(c) ==
    IF \E i \in 1..26 : SubSeq(UpperCase, i, i) = c
    THEN LET i == CHOOSE j \in 1..26 : SubSeq(UpperCase, j, j) = c
         IN SubSeq(LowerCase, i, i)
    ELSE c

\* str.lower() on the first n characters of s
RECURSIVE LowerUpTo(_, _)
LowerUpTo(s, n) ==
    IF n = 0 THEN "" ELSE LowerUpTo(s, n - 1) \o LowerChar(SubSeq(s, n, n))

\* x.lower()
PyLower(x) == IF x.tag = "str" THEN VStr(LowerUpTo(x.s, Len(x.s))) ELSE Raise("AttributeError")

\* x.startswith(prefix)
PyStartsWith(x, prefix) ==
    IF x.tag = "str"
    THEN VBool(Len(x.s) >= Len(prefix) /\ SubSeq(x.s, 1, Len(prefix)) = prefix)
    ELSE Raise("AttributeError")

\* `not s.strip()`: s holds nothing but white space
Blank(s) == \A i \in 1..Len(s) : SubSeq(s, i, i) \in {" ", "\n", "\t"}

\* a YAML plain scalar: an integer when all digits, else a string
YamlScalar(s) == IF ~IsExc(PyInt(s)) THEN PyInt(s) ELSE VStr(s)

\* yaml.safe_load on the manifests of the model, which are block mappings of
\* plain scalars ("key: value" lines), single plain scalars, comments, or
\* carry an unclosed flow sequence: the mapping (a repeated key keeps its last
\* value), the scalar, None for a document without content, or YAMLError.
yaml_safe_load(text) ==
    LET content == SelectSeq(PySplit(text, "\n"),
                             LAMBDA l : ~Blank(l) /\ SubSeq(l, 1, 1) # "#")
        key(l) == PySplit(l, ":")[1]
        value(l) == SubSeq(l, Len(key(l)) + 3, Len(l))
        last(k) == CHOOSE i \in 1..Len(content) :
                      /\ key(content[i]) = k
                      /\ \A j \in (i + 1)..Len(content) : key(content[j]) # k
    IN IF \E i \in 1..Len(content) :
             StrContains("[", content[i]) /\ ~StrContains("]", content[i])
       THEN Raise("YAMLError")
       ELSE IF content = <<>> THEN VNone
       ELSE IF \A i \in 1..Len(content) : StrContains(": ", content[i])
       THEN VDict([k \in { key(content[i]) : i \in 1..Len(content) } |->
                      YamlScalar(value(content[last(k)]))])
       ELSE IF Len(content) = 1 THEN YamlScalar(content[1])
       ELSE Raise("YAMLError")

\* self.notify(message, title=title)
Note(message, title) == [message |-> message, title |-> title]

\* the create call of the client each supported kind is routed to, lines 238-273
CoreCreateCalls ==
    ("pod" :> "create_namespaced_pod") @@ ("service" :> "create_namespaced_service")
    @@ ("configmap" :> "create_namespaced_config_map")
    @@ ("secret" :> "create_namespaced_secret")
AppsCreateCalls ==
    ("deployment" :> "create_namespaced_deployment")
    @@ ("replicaset" :> "create_namespaced_replica_set")

\* what a handler leaves behind: whether it succeeded, the notifications it
\* posted and the create calls it issued
Outcome(ok, notes, calls) == [ok |-> ok, notes |-> notes, calls |-> calls]

\* lines 238-273: the create call, which the cluster accepts or rejects
CreateCall(method, namespace, cluster) ==
    LET call == [method |-> method, namespace |-> namespace] IN
    IF cluster = "accepts"
    THEN Outcome(TRUE, <<>>, <<call>>)
    ELSE Outcome(FALSE, <<Note("Kubernetes API error: ApiException", "Error")>>, <<call>>)

\* the except clause of _apply_resource_to_k8s, lines 281-283
ApiError(e) == Outcome(FALSE, <<Note("Kubernetes API error: " \o e.e, "Error")>>, <<>>)

\* CreateResource._apply_resource_to_k8s, lines 229-283
_apply_resource_to_k8s(resource_data, namespace, cluster) ==
    Eval(LAMBDA kind :
        IF IsExc(kind) THEN ApiError(kind)
        ELSE Eval(LAMBDA api_version :
            IF api_version = VStr("v1")
            THEN (IF kind.s \in DOMAIN CoreCreateCalls
                  THEN CreateCall(CoreCreateCalls[kind.s], namespace, cluster)
                  ELSE Outcome(FALSE,
                               <<Note("Unsupported resource type: " \o kind.s, "Error")>>,
                               <<>>))
            ELSE Eval(LAMBDA apps :
                IF IsExc(apps) THEN ApiError(apps)
                ELSE IF apps.b
                THEN (IF kind.s \in DOMAIN AppsCreateCalls
                      THEN CreateCall(AppsCreateCalls[kind.s], namespace, cluster)
                      ELSE Outcome(FALSE,
                                   <<Note("Unsupported resource type: " \o kind.s, "Error")>>,
                                   <<>>))
                ELSE Outcome(FALSE,
                             <<Note("Unsupported API version: " \o PyStr(api_version),
                                    "Error")>>,
                             <<>>),
                PyStartsWith(api_version, "apps/v1")),
            PyGet(resource_data, "apiVersion", VStr("v1"))),
        Eval(LAMBDA k : IF IsExc(k) THEN k ELSE PyLower(k),
             PyGet(resource_data, "kind", VStr(""))))

\* a handler of the modal has run: its name, the notifications it posted and
\* the create calls it issued
Handled(m, handler, notes, calls) ==
    [m EXCEPT !.handler = handler, !.notified = notes, !.calls = calls]

\* A variant of _apply_resource that dismisses the modal after a successful create.
_apply_resource_then_close(m, cluster) ==
    IF Blank(m.text)
    THEN Handled(m, "apply", <<Note("Please enter YAML content", "Error")>>, <<>>)
    ELSE Eval(LAMBDA resource_data :
        IF IsExc(resource_data)
        THEN Handled(m, "apply", <<Note("Invalid YAML: " \o resource_data.e, "Error")>>, <<>>)
        ELSE IF cluster = "no config"
        THEN Handled(m, "apply",
                     <<Note("Error applying resource: ConfigException", "Error")>>, <<>>)
        ELSE Eval(LAMBDA done :
                IF done.ok
                THEN [Handled(m, "apply", done.notes, done.calls) EXCEPT !.open = FALSE]
                ELSE Handled(m, "apply",
                             done.notes \o <<Note("Failed to create " \o m.resource_type
                                                  \o " resource", "Error")>>,
                             done.calls),
             _apply_resource_to_k8s(resource_data, m.namespace, cluster)),
        yaml_safe_load(m.text))

\* CreateResource._apply_resource, lines 123-151; KubeAPI() raises where the
\* kubeconfig cannot be loaded
_apply_resource(m, cluster) ==
    IF Blank(m.text)
    THEN Handled(m, "apply", <<Note("Please enter YAML content", "Error")>>, <<>>)
    ELSE Eval(LAMBDA resource_data :
        IF IsExc(resource_data)
        THEN Handled(m, "apply", <<Note("Invalid YAML: " \o resource_data.e, "Error")>>, <<>>)
        ELSE IF cluster = "no config"
        THEN Handled(m, "apply",
                     <<Note("Error applying resource: ConfigException", "Error")>>, <<>>)
        ELSE Eval(LAMBDA done :
                Handled(m, "apply",
                        done.notes
                        \o <<IF done.ok
                             THEN Note("Successfully created " \o m.resource_type
                                       \o " resource", "Success")
                             ELSE Note("Failed to create " \o m.resource_type
                                       \o " resource", "Error")>>,
                        done.calls),
             _apply_resource_to_k8s(resource_data, m.namespace, cluster)),
        yaml_safe_load(m.text))

\* CreateResource._reset_template, lines 117-121
_reset_template(m) ==
    Handled([m EXCEPT !.text = m.original_template], "reset",
            <<Note("Template reset to original", "Info")>>, <<>>)

\* CreateResource._create_basic_template, lines 172-227, top-level scalars only
_create_basic_template(resource_type) ==
    IF PyLower(VStr(resource_type)).s = "pods" THEN "apiVersion: v1\nkind: Pod"
    ELSE IF PyLower(VStr(resource_type)).s = "services" THEN "apiVersion: v1\nkind: Service"
    ELSE IF PyLower(VStr(resource_type)).s = "deployments"
    THEN "apiVersion: apps/v1\nkind: Deployment"
    ELSE "apiVersion: v1\nkind: " \o resource_type

\* __init__ and on_mount, lines 20-24 and 40-43: no template file exists in
\* the repository, so _load_template takes the basic template
CreateModal(resource_type, namespace) ==
    [ kind |-> "create", open |-> TRUE, resource_type |-> resource_type,
      namespace |-> namespace,
      original_template |-> _create_basic_template(resource_type),
      text |-> _create_basic_template(resource_type),
      handler |-> "mount", notified |-> <<>>, calls |-> <<>> ]

CreatableKinds == { "pods", "deployments", "jobs" }

ManifestKinds ==
    { "Pod", "Service", "ConfigMap", "Secret", "Deployment", "ReplicaSet", "Job", "POD", "7" }
ManifestVersions == { "v1", "apps/v1", "apps/v1beta1", "batch/v1", "V1", "1" }

\* what the user may leave in the editor
EditorTexts ==
    { "apiVersion: " \o v \o "\nkind: " \o k : v \in ManifestVersions, k \in ManifestKinds }
    \cup { "kind: " \o k : k \in ManifestKinds }
    \cup { "apiVersion: " \o v : v \in ManifestVersions }
    \cup { "", " \n", "# todo", "kind: [Pod", "Pod", "kind: Pod\nreplicas" }

\* how the cluster answers an apply
Clusters == { "accepts", "rejects", "no config" }

CreateInit ==
    /\ selected_api_resource \in CreatableKinds
    /\ current_namespace = "default"
    /\ views = <<>>
    /\ sample = VNone
    /\ field_path = ""
    /\ result = NoResult
    /\ stage = "modal"
    /\ now = 0
    /\ modal = CreateModal(selected_api_resource, current_namespace)

\* the user edits the text of the TextArea
EditText ==
    /\ modal.open
    /\ \E text \in EditorTexts :
         modal' = Handled([modal EXCEPT !.text = text], "edit", <<>>, <<>>)
    /\ UNCHANGED <<sample, field_path, result, stage, now>>
    /\ UNCHANGED appvars

\* ctrl+a, the Apply button: lines 50-52, 61-63, 75-76
ApplyResource ==
    /\ modal.open
    /\ \E cluster \in Clusters : modal' = _apply_resource(modal, cluster)
    /\ UNCHANGED <<sample, field_path, result, stage, now>>
    /\ UNCHANGED appvars

\* ctrl+r, the Reset button: lines 54-56, 65-67, 77-78
ResetTemplate ==
    /\ modal.open
    /\ modal' = _reset_template(modal)
    /\ UNCHANGED <<sample, field_path, result, stage, now>>
    /\ UNCHANGED appvars

\* escape, the Close button: lines 46-48, 69-71, 79-80
CloseCreate ==
    /\ modal.open
    /\ modal' = Handled([modal EXCEPT !.open = FALSE], "close", <<>>, <<>>)
    /\ UNCHANGED <<sample, field_path, result, stage, now>>
    /\ UNCHANGED appvars

CreateNext == EditText \/ ApplyResource \/ ResetTemplate \/ CloseCreate

CreateSpec == CreateInit /\ [][CreateNext]_vars

---------------------------------------------------------------------------
(* Properties of the create modal (CreateSpec) *)

\* the kind / API version pairs the create routing supports
SupportedPair(kind, api_version) ==
    \/ api_version = "v1" /\ kind \in {"pod", "service", "configmap", "secret"}
    \/ api_version = "apps/v1" /\ kind \in {"deployment", "replicaset"}

\* the handler posted a notification whose message starts with the prefix
Notified(prefix) ==
    \E n \in 1..Len(modal.notified) :
        PyStartsWith(VStr(modal.notified[n].message), prefix).b

\* C15: applying, with a client at hand, a manifest whose kind and API version
\* are no supported pair issues no create call and is reported as unsupported.
UnsupportedKindIssuesNoCall ==
    (modal.handler = "apply" /\ ~Notified("Error applying resource")) =>
        \A resource_data \in {yaml_safe_load(modal.text)} :
            (/\ resource_data.tag = "dict"
             /\ Field(resource_data, "kind").tag = "str"
             /\ Field(resource_data, "apiVersion").tag = "str"
             /\ ~SupportedPair(PyLower(resource_data.d["kind"]).s,
                               resource_data.d["apiVersion"].s)) =>
                /\ modal.calls = <<>>
                /\ Notified("Unsupported")

\* C16: an apply attempt, whatever its outcome, leaves the modal open and the
\* editor text (and the template it resets to) as they were, and posts a
\* notification: titled Success after a create call the cluster accepted,
\* titled Error otherwise.
ApplyKeepsModalAndText ==
    [][modal'.handler = "apply" =>
          /\ modal'.open
          /\ modal'.text = modal.text
          /\ modal'.original_template = modal.original_template
          /\ Len(modal'.notified) >= 1
          /\ \A n \in 1..Len(modal'.notified) :
               modal'.notified[n].title \in {"Error", "Success"}
          /\ modal'.notified[Len(modal'.notified)].title = "Success" =>
               Len(modal'.calls) = 1]_vars

\* C16 happens: the cluster rejected the create call of an edited manifest.
RejectedApplyLeftModalOpen ==
    /\ modal.kind = "create"
    /\ modal.handler = "apply"
    /\ modal.open
    /\ modal.text = "apiVersion: v1\nkind: Secret"
    /\ modal.text # modal.original_template
    /\ Len(modal.calls) = 1
    /\ modal.notified = <<Note("Kubernetes API error: ApiException", "Error"),
                          Note("Failed to create pods resource", "Error")>>

---------------------------------------------------------------------------
(* The logs modal: ApiResourceLogs *)

\* s.strip()
PyStrip(s) ==
    LET kept == { i \in 1..Len(s) : SubSeq(s, i, i) \notin {" ", "\n", "\t"} } IN
    IF kept = {} THEN ""
    ELSE SubSeq(s, CHOOSE i \in kept : \A j \in kept : i <= j,
                   CHOOSE i \in kept : \A j \in kept : i >= j)

\* '\n'.join(lines)
RECURSIVE JoinLines(_)
JoinLines(lines) ==
    IF lines = <<>> THEN ""
    ELSE IF Len(lines) = 1 THEN lines[1]
    ELSE lines[1] \o "\n" \o JoinLines(Tail(lines))

\* A variant of _format_logs that also puts an empty line after the last line.
_format_logs_trailing_separator(raw_logs) ==
    IF raw_logs = "" THEN raw_logs
    ELSE Eval(LAMBDA log_lines :
                 JoinLines([i \in 1..(2 * Len(log_lines)) |->
                              IF i % 2 = 1 THEN PyStrip(log_lines[(i + 1) \div 2]) ELSE ""]),
              SelectSeq(PySplit(raw_logs, "\n"), LAMBDA line : ~Blank(line)))

\* ApiResourceLogs._format_logs, lines 145-162: the stripped non-blank lines,
\* an empty line between each two
_format_logs(raw_logs) ==
    IF raw_logs = "" THEN raw_logs
    ELSE Eval(LAMBDA log_lines :
                 JoinLines([i \in 1..(2 * Len(log_lines) - 1) |->
                              IF i % 2 = 1 THEN PyStrip(log_lines[(i + 1) \div 2]) ELSE ""]),
              SelectSeq(PySplit(raw_logs, "\n"), LAMBDA line : ~Blank(line)))

\* what the cluster answers: text or a pod on success, Raise(e) otherwise
Answer(value) == [tag |-> "ok", value |-> value]

\* ApiResourceLogs._get_pod_logs, lines 120-143: the text, and the calls made
_get_pod_logs(m, cluster) ==
    IF ~IsExc(cluster.log)
    THEN [text |-> _format_logs(cluster.log.value), calls |-> <<"read_namespaced_pod_log">>]
    ELSE [ text |->
             IF IsExc(cluster.pod)
             THEN "Error: Pod " \o m.resource_name \o " not found in namespace "
                  \o m.namespace \o ": " \o cluster.pod.e
             ELSE IF cluster.pod.value \in {"Succeeded", "Failed"}
             THEN "Pod " \o m.resource_name \o " is in " \o cluster.pod.value
                  \o " state - no active logs available"
             ELSE "No logs available for pod " \o m.resource_name
                  \o " (status: " \o cluster.pod.value \o ")",
           calls |-> <<"read_namespaced_pod_log", "read_namespaced_pod">> ]

\* the fetch has run: what the Static shows, the calls of the fetch and what
\* the cluster was like
Fetch(m, shown, calls, cluster) ==
    [m EXCEPT !.shown = shown, !.calls = calls, !.met = cluster]

\* ApiResourceLogs._fetch_logs, lines 98-118 (the cross mark that leads the
\* pods-only message is left out)
_fetch_logs(m, cluster) ==
    IF ~cluster.config
    THEN Fetch(m, "Error fetching logs: ConfigException", <<"KubeAPI">>, cluster)
    ELSE IF PyLower(VStr(m.resource_type)).s # "pods"
    THEN Fetch(m, "Logs are only available for pods, not " \o m.resource_type,
               <<"KubeAPI">>, cluster)
    ELSE Eval(LAMBDA got :
                 IF got.text # ""
                 THEN [Fetch(m, got.text, <<"KubeAPI">> \o got.calls, cluster)
                          EXCEPT !.logs_content = got.text]
                 ELSE Fetch(m, "No logs available for " \o m.resource_name,
                            <<"KubeAPI">> \o got.calls, cluster),
              _get_pod_logs(m, cluster))

\* no fetch has met the cluster yet
NoCluster == [config |-> TRUE, log |-> Answer(""), pod |-> Answer("Unknown")]

\* __init__ and compose, lines 20-34
LogsModal(resource_type, resource_name, namespace) ==
    [ kind |-> "logs",
      status |-> "mounting",      \* mounting | mounted | closing | unmounted
      resource_type |-> resource_type,
      resource_name |-> resource_name,
      namespace |-> namespace,
      watch_enabled |-> FALSE,
      watch_timer |-> "None",     \* None | pending | fired | done: the timer the handle holds
      timers_pending |-> 0,       \* timers of the modal that have not fired yet
      callbacks_queued |-> 0,     \* fired timers whose _refresh_logs has not run yet
      logs_content |-> "",
      shown |-> "",               \* what the Static #logs_content shows
      handler |-> "init",         \* the handler that ran last
      calls |-> <<>>,             \* the client calls of the latest fetch
      met |-> NoCluster ]         \* what the latest fetch met

\* lines 71-76; Timer.stop() cancels a timer that has not fired, and does not
\* withdraw the callback of one that has
logs_stop_watch(m) ==
    [m EXCEPT !.watch_enabled = FALSE,
              !.watch_timer = "None",
              !.timers_pending = IF m.watch_timer = "pending" THEN @ - 1 ELSE @]

\* self.watch_timer = self.set_timer(2.0, self._refresh_logs), lines 69 and 83
logs_set_timer(m) ==
    [m EXCEPT !.watch_timer = "pending", !.timers_pending = @ + 1]

\* lines 65-69
logs_start_watch(m) == logs_set_timer([m EXCEPT !.watch_enabled = TRUE])

\* what a fetch met: the kubeconfig loads or not, the log read and the pod
\* read answer or raise
Cluster(config, log, pod) == [config |-> config, log |-> log, pod |-> pod]

\* the cluster as a fetch can meet it: no kubeconfig; a pod with output, with
\* none, with blank lines only; a pod that is starting, has completed or has
\* failed and whose log read is refused; no such pod; a cluster out of reach
\* for both reads, or for the log read alone
LogClusters ==
    { Cluster(FALSE, Raise("ConnectionError"), Raise("ConnectionError")),
      Cluster(TRUE, Answer("started\n ready \n"), Answer("Running")),
      Cluster(TRUE, Answer(""), Answer("Running")),
      Cluster(TRUE, Answer(" \n"), Answer("Running")),
      Cluster(TRUE, Raise("ApiException(400)"), Answer("Pending")),
      Cluster(TRUE, Raise("ApiException(400)"), Answer("Succeeded")),
      Cluster(TRUE, Raise("ApiException(400)"), Answer("Failed")),
      Cluster(TRUE, Raise("ApiException(404)"), Raise("ApiException(404)")),
      Cluster(TRUE, Raise("ConnectionError"), Raise("ConnectionError")),
      Cluster(TRUE, Raise("ConnectionError"), Answer("Running")) }

\* the kinds whose logs may be asked for
LoggedKinds == { "pods", "Pods", "deployments" }

LogsInit ==
    /\ selected_api_resource \in LoggedKinds
    /\ current_namespace = "default"
    /\ views = <<>>
    /\ sample = VNone
    /\ field_path = ""
    /\ result = NoResult
    /\ stage = "modal"
    /\ now = 0
    /\ modal = LogsModal(selected_api_resource, "web", current_namespace)

\* ApiResourceLogs.on_mount, lines 36-39
LogsOnMount ==
    /\ modal.status = "mounting"
    /\ \E cluster \in LogClusters :
         modal' = [_fetch_logs(modal, cluster) EXCEPT !.status = "mounted",
                                                      !.handler = "on_mount"]
    /\ UNCHANGED <<sample, field_path, result, stage, now>>
    /\ UNCHANGED appvars

\* ApiResourceLogs.action_toggle_watch, lines 49-58 (ctrl+w)
action_toggle_watch ==
    /\ modal.status = "mounted"
    /\ IF modal.watch_enabled
       THEN modal' = [logs_stop_watch(modal) EXCEPT !.handler = "stop"]
       ELSE /\ modal.timers_pending + modal.callbacks_queued < MaxTimers
            /\ modal' = [logs_start_watch(modal) EXCEPT !.handler = "start"]
    /\ UNCHANGED <<sample, field_path, result, stage, now>>
    /\ UNCHANGED appvars

\* ApiResourceLogs.action_refresh, lines 60-63 (ctrl+r)
action_refresh ==
    /\ modal.status = "mounted"
    /\ \E cluster \in LogClusters :
         modal' = [_fetch_logs(modal, cluster) EXCEPT !.handler = "action_refresh"]
    /\ UNCHANGED <<sample, field_path, result, stage, now>>
    /\ UNCHANGED appvars

\* A timer set by set_timer(2.0, ...) expires: its callback is queued on the
\* modal.  held: the timer is the one self.watch_timer refers to.
LogsTimerFire(held) ==
    /\ modal.status # "mounting"
    /\ IF held THEN modal.watch_timer = "pending"
       ELSE modal.timers_pending > (IF modal.watch_timer = "pending" THEN 1 ELSE 0)
    /\ modal' = [modal EXCEPT !.timers_pending = @ - 1,
                              !.callbacks_queued = @ + 1,
                              !.watch_timer = IF held THEN "fired" ELSE @,
                              !.handler = "timer"]
    /\ UNCHANGED <<sample, field_path, result, stage, now>>
    /\ UNCHANGED appvars

\* ApiResourceLogs._refresh_logs, lines 78-83, run for a fired timer
_refresh_logs(held) ==
    /\ IF held THEN modal.watch_timer = "fired"
       ELSE modal.callbacks_queued > (IF modal.watch_timer = "fired" THEN 1 ELSE 0)
    /\ LET m == [modal EXCEPT !.callbacks_queued = @ - 1,
                              !.watch_timer = IF held THEN "done" ELSE @]
       IN IF m.watch_enabled
          THEN \E cluster \in LogClusters :
                 modal' = [logs_set_timer(_fetch_logs(m, cluster)) EXCEPT !.handler = "tick"]
          ELSE modal' = [m EXCEPT !.handler = "stale tick"]
    /\ UNCHANGED <<sample, field_path, result, stage, now>>
    /\ UNCHANGED appvars

\* ApiResourceLogs.action_close, lines 45-47: dismiss() takes the screen off
action_close ==
    /\ modal.status = "mounted"
    /\ modal' = [modal EXCEPT !.status = "closing", !.handler = "action_close"]
    /\ UNCHANGED <<sample, field_path, result, stage, now>>
    /\ UNCHANGED appvars

\* ApiResourceLogs.on_unmount, lines 41-43
LogsOnUnmount ==
    /\ modal.status = "closing"
    /\ modal' = [logs_stop_watch(modal) EXCEPT !.status = "unmounted",
                                               !.handler = "on_unmount"]
    /\ UNCHANGED <<sample, field_path, result, stage, now>>
    /\ UNCHANGED appvars

LogsNext ==
    \/ LogsOnMount
    \/ action_toggle_watch
    \/ action_refresh
    \/ \E held \in BOOLEAN : LogsTimerFire(held)
    \/ \E held \in BOOLEAN : _refresh_logs(held)
    \/ action_close
    \/ LogsOnUnmount

LogsSpec == LogsInit /\ [][LogsNext]_vars

---------------------------------------------------------------------------
(* Properties of the logs modal (LogsSpec) *)

\* the fetch read something from the cluster
ReadCalls == { "read_namespaced_pod_log", "read_namespaced_pod" }

\* C17: for a kind other than pods every fetch (on mount, on ctrl+r, on a
\* watch tick) shows the pods-only message and reads nothing from the cluster,
\* whatever the cluster is like.
NonPodFetchShowsPodsOnly ==
    (/\ modal.kind = "logs"
     /\ modal.status # "mounting"
     /\ PyLower(VStr(modal.resource_type)).s # "pods") =>
        /\ modal.shown = "Logs are only available for pods, not " \o modal.resource_type
        /\ \A c \in 1..Len(modal.calls) : modal.calls[c] \notin ReadCalls

\* C18: for a pod the modal tells apart a pod that is not found, a pod in a
\* terminal phase without active logs and a pod without log output yet: each
\* is shown only in its own case, a transport error in particular is not
\* shown as a pod that is not found.
LogOutcomesToldApart ==
    (/\ modal.kind = "logs"
     /\ modal.status # "mounting"
     /\ PyLower(VStr(modal.resource_type)).s = "pods") =>
        /\ StrContains("not found", modal.shown) =>
             modal.met.pod = Raise("ApiException(404)")
        /\ StrContains("no active logs", modal.shown) =>
             (~IsExc(modal.met.pod) /\ modal.met.pod.value \in {"Succeeded", "Failed"})
        /\ modal.shown = "No logs available for " \o modal.resource_name =>
             (~IsExc(modal.met.log) /\ Blank(modal.met.log.value))

\* C19: the watch loop of the logs modal is that of the table view: ctrl+w
\* starts it (flag set, one more timer) or stops it (flag clear, handle
\* dropped); a tick fetches and reschedules only while the flag is set, and
\* does nothing otherwise; unmounting stops it; ctrl+r while watching neither
\* adds a timer nor stops the watch; and at most one timer is pending.
LogsWatchLoopAsTableView ==
    [][/\ modal'.handler = "start" =>
            /\ modal'.watch_enabled /\ modal'.watch_timer = "pending"
            /\ modal'.timers_pending = modal.timers_pending + 1
       /\ modal'.handler \in {"stop", "on_unmount"} =>
            /\ ~modal'.watch_enabled /\ modal'.watch_timer = "None"
            /\ modal'.timers_pending <= modal.timers_pending
       /\ modal'.handler = "tick" =>
            /\ modal.watch_enabled /\ modal'.watch_enabled
            /\ modal'.watch_timer = "pending"
            /\ modal'.timers_pending = modal.timers_pending + 1
       /\ modal'.handler = "stale tick" =>
            /\ ~modal.watch_enabled /\ ~modal'.watch_enabled
            /\ modal'.shown = modal.shown
            /\ modal'.timers_pending = modal.timers_pending
       /\ modal'.handler = "action_refresh" =>
            /\ modal'.watch_enabled = modal.watch_enabled
            /\ modal'.watch_timer = modal.watch_timer
            /\ modal'.timers_pending = modal.timers_pending
            /\ modal'.callbacks_queued = modal.callbacks_queued
       /\ modal'.timers_pending <= 1]_vars

---------------------------------------------------------------------------
(* Kind discovery: KubeAPI.get_api_resources *)

\* ','.join(short_names)
RECURSIVE JoinComma(_)
JoinComma(names) ==
    IF names = <<>> THEN ""
    ELSE IF Len(names) = 1 THEN names[1].s
    ELSE names[1].s \o "," \o JoinComma(Tail(names))

\* lines 40-51 and 72-84: the catalog entry of one resource of a discovery
\* document
DiscoveredEntry(resource, api_version) ==
    LET short_names == PyGet(resource, "shortNames", EmptyList) IN
    [ name |-> resource.d["name"].s,
      shortnames |-> IF PyTruthy(short_names) THEN JoinComma(short_names.l) ELSE "",
      apiversion |-> api_version,
      namespaced |-> PyGet(resource, "namespaced", VBool(FALSE)),
      kind |-> PyGet(resource, "kind", VStr("")) ]

\* A variant of TopLevel that keeps every named resource, sub-resources too.
TopLevelOrSubresource(resource) == PyIn("name", resource).b

\* `'name' in resource and '/' not in resource['name']`, lines 39 and 69
TopLevel(resource) ==
    PyIn("name", resource).b /\ ~StrContains("/", resource.d["name"].s)

\* lines 34-51 and 63-84: what one query adds to all_resources; nothing when
\* call_api raises, returns nothing, or the document has no resource list
QueryEntries(response, api_version) ==
    IF IsExc(response) \/ response = NoResponse THEN <<>>
    ELSE IF ~PyIn("resources", response.body).b THEN <<>>
    ELSE IF response.body.d["resources"].tag # "list" THEN <<>>   \* TypeError, lines 54 / 85
    ELSE Eval(LAMBDA kept : [i \in 1..Len(kept) |-> DiscoveredEntry(kept[i], api_version)],
              SelectSeq(response.body.d["resources"].l, TopLevel))

\* lines 61-87: the versions of one group, in order
RECURSIVE VersionEntries(_, _)
VersionEntries(group_name, versions) ==
    IF versions = <<>> THEN <<>>
    ELSE QueryEntries(versions[1].response, group_name \o "/" \o versions[1].version)
         \o VersionEntries(group_name, Tail(versions))

\* A variant of GroupEntries that gives up at the first group with a failing
\* query, losing that group and those after it.
RECURSIVE GroupEntriesUntilFailure(_)
GroupEntriesUntilFailure(groups) ==
    IF groups = <<>> THEN <<>>
    ELSE IF \E v \in 1..Len(groups[1].versions) : IsExc(groups[1].versions[v].response)
    THEN <<>>
    ELSE VersionEntries(groups[1].name, groups[1].versions)
         \o GroupEntriesUntilFailure(Tail(groups))

\* lines 60-87: the groups in the order get_api_versions lists them
RECURSIVE GroupEntries(_)
GroupEntries(groups) ==
    IF groups = <<>> THEN <<>>
    ELSE VersionEntries(groups[1].name, groups[1].versions) \o GroupEntries(Tail(groups))

\* KubeAPI.get_api_resources, lines 24-99: the core query, then the group list
\* and one query per group and version
get_api_resources(cluster) ==
    QueryEntries(cluster.core, "v1")
    \o (IF IsExc(cluster.groups) THEN <<>> ELSE GroupEntries(cluster.groups.groups))

\* one resource of a discovery document
Resource(name, kind, namespaced, short_names) ==
    MkDict([name |-> name, kind |-> kind, namespaced |-> namespaced,
            shortNames |-> short_names])

\* a discovery document
ResourceList(resources) ==
    VDict(("kind" :> VStr("APIResourceList")) @@ ("resources" :> VList(resources)))

CoreV1Document ==
    ResourceList(<< Resource(VStr("pods"), VStr("Pod"), VBool(TRUE), VList(<<VStr("po")>>)),
                    Resource(VStr("pods/log"), VStr("Pod"), VBool(TRUE), Absent),
                    Resource(VStr("nodes"), VStr("Node"), Absent, Absent),
                    Resource(Absent, VStr("Binding"), VBool(TRUE), Absent) >>)
AppsV1Document ==
    ResourceList(<< Resource(VStr("deployments"), VStr("Deployment"), VBool(TRUE),
                             VList(<<VStr("deploy")>>)),
                    Resource(VStr("deployments/scale"), VStr("Scale"), VBool(TRUE), Absent),
                    Resource(VStr("replicasets"), VStr("ReplicaSet"), VBool(TRUE),
                             VList(<<VStr("rs")>>)) >>)
AppsV1beta1Document ==
    ResourceList(<< Resource(VStr("deployments"), VStr("Deployment"), VBool(TRUE), EmptyList) >>)
BatchV1Document ==
    ResourceList(<< Resource(VStr("jobs"), VStr("Job"), VBool(TRUE), Absent),
                    Resource(VStr("cronjobs"), VStr("CronJob"), VBool(TRUE),
                             VList(<<VStr("cj"), VStr("cron")>>)) >>)

\* what one discovery query can return: it raises, returns nothing, a document
\* without a resource list or with a null one, or the document
QueryResponses(document) ==
    { Raise("ApiException"), NoResponse, Response(EmptyDict),
      Response(VDict("resources" :> VNone)), Response(document) }

\* apis_api.get_api_versions(): the groups, in the cluster's order
GroupList(groups) == [tag |-> "ok", groups |-> groups]

\* one version of a group and the answer to its query
GroupVersion(version, response) == [version |-> version, response |-> response]

\* the clusters discovery can meet: the group list fails, or lists apps and
\* batch in either order
DiscoveredClusters ==
    { [core |-> c, groups |-> g] :
        c \in QueryResponses(CoreV1Document),
        g \in { Raise("ApiException") }
              \cup UNION { { GroupList(
                               << [name |-> "apps", versions |-> <<GroupVersion("v1", a),
                                                                GroupVersion("v1beta1", b)>>],
                                  [name |-> "batch", versions |-> <<GroupVersion("v1", j)>>] >>),
                             GroupList(
                               << [name |-> "batch", versions |-> <<GroupVersion("v1", j)>>],
                                  [name |-> "apps", versions |-> <<GroupVersion("v1", a),
                                                                GroupVersion("v1beta1", b)>>] >>) } :
                           a \in QueryResponses(AppsV1Document) \ {NoResponse},
                           b \in { Raise("ApiException"), Response(AppsV1beta1Document) },
                           j \in { Raise("ApiException"), Response(BatchV1Document) } } }

DiscoveryInit ==
    /\ selected_api_resource = ""
    /\ current_namespace = "default"
    /\ views = <<>>
    /\ sample \in DiscoveredClusters
    /\ field_path = ""
    /\ result = NoResult
    /\ stage = "input"
    /\ now = 0
    /\ modal = NoModal

\* one call of KubeAPI.get_api_resources
Discover ==
    /\ stage = "input"
    /\ result' = get_api_resources(sample)
    /\ stage' = "discovered"
    /\ UNCHANGED <<sample, field_path, now, modal>>
    /\ UNCHANGED appvars

DiscoverySpec == DiscoveryInit /\ [][Discover]_vars

---------------------------------------------------------------------------
(* Properties of kind discovery (DiscoverySpec) *)

\* the queries discovery makes, in order: the core group, then each version
\* of each listed group; none for the groups when the group list fails
RECURSIVE GroupQueries(_)
GroupQueries(groups) ==
    IF groups = <<>> THEN <<>>
    ELSE [v \in 1..Len(groups[1].versions) |->
             [api_version |-> groups[1].name \o "/" \o groups[1].versions[v].version,
              response |-> groups[1].versions[v].response]]
         \o GroupQueries(Tail(groups))

Queries(cluster) ==
    <<[api_version |-> "v1", response |-> cluster.core]>>
    \o (IF IsExc(cluster.groups) THEN <<>> ELSE GroupQueries(cluster.groups.groups))

\* the names a query reported that are no subresources, in the order reported
Reported(query) ==
    IF /\ query.response.tag = "response"
       /\ HasKey(query.response.body, "resources")
       /\ query.response.body.d["resources"].tag = "list"
    THEN LET all == query.response.body.d["resources"].l
             top == { r \in 1..Len(all) :
                        /\ HasKey(all[r], "name")
                        /\ \A c \in 1..Len(all[r].d["name"].s) :
                             SubSeq(all[r].d["name"].s, c, c) # "/" }
             nth(n) == CHOOSE r \in top : Cardinality({ q \in top : q < r }) = n - 1
         IN [n \in 1..Cardinality(top) |-> all[nth(n)].d["name"].s]
    ELSE <<>>

\* how many entries the queries before the q-th contribute
RECURSIVE ReportedBefore(_, _)
ReportedBefore(queries, q) ==
    IF q <= 1 THEN 0
    ELSE ReportedBefore(queries, q - 1) + Len(Reported(queries[q - 1]))

\* C20: discovery returns a catalog whatever queries fail: it holds, query by
\* query in discovery order, one entry for every top-level resource each
\* succeeding query reported, in the order reported, under that query's API
\* version, and nothing else; a failing query contributes nothing and the
\* queries after it still contribute.
DiscoverySurvivesFailedQueries ==
    stage = "discovered" =>
        \A queries \in {Queries(sample)} :
            /\ Len(result) = ReportedBefore(queries, Len(queries) + 1)
            /\ \A q \in 1..Len(queries) :
                 \A n \in 1..Len(Reported(queries[q])) :
                    \A at \in {ReportedBefore(queries, q) + n} :
                       /\ result[at].name = Reported(queries[q])[n]
                       /\ result[at].apiversion = queries[q].api_version

\* C20 happens: the core query and the first apps query failed, and the
\* catalog holds the resources of the two queries after them.
LaterQueriesSurviveFailure ==
    /\ stage = "discovered"
    /\ IsExc(sample.core)
    /\ ~IsExc(sample.groups)
    /\ sample.groups.groups[1].name = "apps"
    /\ IsExc(sample.groups.groups[1].versions[1].response)
    /\ [i \in 1..Len(result) |-> <<result[i].name, result[i].apiversion>>]
         = << <<"deployments", "apps/v1beta1">>, <<"jobs", "batch/v1">>,
              <<"cronjobs", "batch/v1">> >>

\* the resources of the document a query answered with, none when it failed
Documented(query) ==
    IF /\ query.response.tag = "response"
       /\ HasKey(query.response.body, "resources")
       /\ query.response.body.d["resources"].tag = "list"
    THEN query.response.body.d["resources"].l
    ELSE <<>>

\* C21: no catalog entry has a "/" in its name, for the core API and for every
\* group/version alike; and every resource a succeeding query reported under
\* a name without "/" has its entry, under that query's API version.
CatalogHasNoSubresources ==
    stage = "discovered" =>
        /\ \A i \in 1..Len(result) :
             \A c \in 1..Len(result[i].name) : SubSeq(result[i].name, c, c) # "/"
        /\ \A queries \in {Queries(sample)} :
             \A q \in 1..Len(queries) :
                \A r \in 1..Len(Documented(queries[q])) :
                   \A resource \in {Documented(queries[q])[r]} :
                      (/\ HasKey(resource, "name")
                       /\ \A c \in 1..Len(resource.d["name"].s) :
                            SubSeq(resource.d["name"].s, c, c) # "/") =>
                          \E i \in 1..Len(result) :
                             /\ result[i].name = resource.d["name"].s
                             /\ result[i].apiversion = queries[q].api_version

\* C21 happens: the core and the apps/v1 documents, which list pods/log and
\* deployments/scale, were both read.
SubresourcesWereReported ==
    /\ stage = "discovered"
    /\ sample.core = Response(CoreV1Document)
    /\ ~IsExc(sample.groups)
    /\ \E g \in 1..Len(sample.groups.groups) :
         /\ sample.groups.groups[g].name = "apps"
         /\ sample.groups.groups[g].versions[1].response = Response(AppsV1Document)
    /\ \E i \in 1..Len(result) : result[i].name = "pods"
    /\ \E i \in 1..Len(result) : result[i].name = "replicasets"
    /\ \A i \in 1..Len(result) : result[i].name \notin {"pods/log", "deployments/scale"}

---------------------------------------------------------------------------
(* ApiResourceContent: the cursor keys and describe                         *)

\* DataTable.cursor_row and cursor_column are properties computed from the
\* table's cursor_coordinate.  The table class is not part of src/: an
\* assignment to such a property is either accepted, and moves the cursor, or
\* raises AttributeError (a property without a setter).
AssignOutcomes == { "assigned", "AttributeError" }

\* table.cursor_row = value, lines 109 and 115
AssignCursorRow(table, value, outcome) ==
    IF outcome = "assigned" THEN [table EXCEPT !.cursor_row = value]
    ELSE [table EXCEPT !.unhandled = "AttributeError"]

\* table.cursor_column = value, lines 121 and 127
AssignCursorColumn(table, value, outcome) ==
    IF outcome = "assigned" THEN [table EXCEPT !.cursor_column = value]
    ELSE [table EXCEPT !.unhandled = "AttributeError"]

\* A key binding of view i is run: the view is mounted, no exception has left
\* one of its handlers, and no describe screen covers it.
KeysDispatched(i) ==
    /\ Settled
    /\ views[i].status = "mounted"
    /\ views[i].unhandled = "none"
    /\ modal.kind # "describe"

\* lines 105-109 (key up)
action_cursor_up(i, outcome) ==
    /\ KeysDispatched(i)
    /\ views' = [views EXCEPT ![i] =
           IF @.cursor_row > 0 THEN AssignCursorRow(@, @.cursor_row - 1, outcome) ELSE @]
    /\ UNCHANGED <<selected_api_resource, current_namespace, fvars>>

\* lines 111-115 (key down)
action_cursor_down(i, outcome) ==
    /\ KeysDispatched(i)
    /\ views' = [views EXCEPT ![i] =
           IF @.cursor_row < Len(@.rows) - 1
           THEN AssignCursorRow(@, @.cursor_row + 1, outcome) ELSE @]
    /\ UNCHANGED <<selected_api_resource, current_namespace, fvars>>

\* lines 117-121 (key left)
action_cursor_left(i, outcome) ==
    /\ KeysDispatched(i)
    /\ views' = [views EXCEPT ![i] =
           IF @.cursor_column > 0
           THEN AssignCursorColumn(@, @.cursor_column - 1, outcome) ELSE @]
    /\ UNCHANGED <<selected_api_resource, current_namespace, fvars>>

\* lines 123-127 (key right)
action_cursor_right(i, outcome) ==
    /\ KeysDispatched(i)
    /\ views' = [views EXCEPT ![i] =
           IF @.cursor_column < Len(@.columns) - 1
           THEN AssignCursorColumn(@, @.cursor_column + 1, outcome) ELSE @]
    /\ UNCHANGED <<selected_api_resource, current_namespace, fvars>>

ErrorPayload(message) == VDict("error" :> VStr(message))

\* lines 417-425: resource.get('metadata', {}).get('name', '') of a dict item,
\* '' for an item without metadata
ResourceName(resource) ==
    IF resource.tag = "dict"
    THEN LET metadata == PyGet(resource, "metadata", EmptyDict) IN
         IF IsExc(metadata) THEN metadata ELSE PyGet(metadata, "name", VStr(""))
    ELSE VStr("")

\* lines 415-425: the scan in order: the first item whose name is
\* resource_name, VNone when there is none, or the exception raised by an item
\* the scan reached before
ScanForName(items, resource_name) ==
    LET stops == { i \in 1..Len(items) :
                     \/ IsExc(ResourceName(items[i]))
                     \/ ResourceName(items[i]) = VStr(resource_name) }
    IN IF stops = {} THEN VNone
       ELSE IF IsExc(ResourceName(items[Min(stops)])) THEN ResourceName(items[Min(stops)])
       ELSE items[Min(stops)]

\* A variant of _get_raw_resource_data that describes the first item of the
\* collection, whatever its name.
_get_raw_resource_data_first_item(resource_type, resource_name, namespace, env) ==
    IF IsExc(env.init) THEN ErrorPayload("Error getting resource data: " \o env.init.e)
    ELSE Eval(LAMBDA resource_data :
                 IF ~PyTruthy(resource_data)
                 THEN ErrorPayload("No " \o resource_type \o " found")
                 ELSE resource_data.l[1],
              _get_resource_data(resource_type, namespace, env).data)

\* ApiResourceContent._get_raw_resource_data, lines 403-434
_get_raw_resource_data(resource_type, resource_name, namespace, env) ==
    IF IsExc(env.init) THEN ErrorPayload("Error getting resource data: " \o env.init.e)
    ELSE Eval(LAMBDA resource_data :
                 IF ~PyTruthy(resource_data)
                 THEN ErrorPayload("No " \o resource_type \o " found")
                 ELSE Eval(LAMBDA target_resource :
                              IF IsExc(target_resource)
                              THEN ErrorPayload("Error getting resource data: "
                                                    \o target_resource.e)
                              ELSE IF ~PyTruthy(target_resource)
                              THEN ErrorPayload("Resource " \o resource_name
                                                    \o " not found in " \o resource_type)
                              ELSE target_resource,
                           ScanForName(resource_data.l, resource_name)),
              _get_resource_data(resource_type, namespace, env).data)

\* DescribeModal(resource_type, resource_name, describe_data) pushed on the
\* screen stack; refetched: what the describe's own fetch returned
DescribeModal(resource_type, resource_name, describe_data, refetched) ==
    [ kind |-> "describe", resource_type |-> resource_type,
      resource_name |-> resource_name, describe_data |-> describe_data,
      refetched |-> refetched ]

Notification(message) == [ kind |-> "notification", message |-> message ]

\* ApiResourceContent.action_describe, lines 143-178 (key ctrl+d); lines
\* 164-166 leave a catalog name as it is
action_describe(i, env) ==
    /\ KeysDispatched(i)
    /\ LET table == views[i] IN
       IF Len(table.rows) = 0 THEN modal' = Notification("No resources to describe")
       ELSE LET selected_row == IF table.cursor_row >= Len(table.rows) THEN 0
                                ELSE table.cursor_row
                resource_name == table.rows[selected_row + 1][1]
            IN IF selected_api_resource = ""
               THEN modal' = Notification("No API resource selected")
               ELSE \E describe_data \in
                        {_get_raw_resource_data(selected_api_resource, resource_name,
                                                current_namespace, env)} :
                      modal' = DescribeModal(
                                 selected_api_resource, resource_name, describe_data,
                                 IF IsExc(env.init) THEN VNone
                                 ELSE _get_resource_data(selected_api_resource,
                                                         current_namespace, env).data)
    /\ UNCHANGED <<selected_api_resource, current_namespace, views,
                   sample, field_path, result, stage, now>>

\* What the fetch of a describe can meet: the listing as rendered, the same
\* items in another order, no items, a failed call; with and without a client
\* and a catalog.
DescribeEnvironments ==
    { env \in [ init : {VNone, Raise("ConfigException")},
                catalog : Catalogs,
                response : { Raise("ApiException"),
                             Response(VDict("items" :> VList(<<PodRunning, PodNoStatus>>))),
                             Response(VDict("items" :> VList(<<PodNoStatus, PodRunning>>))),
                             Response(VDict("items" :> EmptyList)) },
                wall : {11400} ] : TRUE }

GridNext ==
    \/ \E k \in Kinds : SelectKind(k, 1)
    \/ \E i \in DOMAIN views : OnMount(i, WatchEnvironments)
    \/ \E i \in DOMAIN views : action_watch(i)
    \/ \E i \in DOMAIN views, held \in BOOLEAN : TimerFire(i, held)
    \/ \E i \in DOMAIN views, held \in BOOLEAN : _refresh_data(i, held, WatchEnvironments)
    \/ \E i \in DOMAIN views, outcome \in AssignOutcomes : action_cursor_up(i, outcome)
    \/ \E i \in DOMAIN views, outcome \in AssignOutcomes : action_cursor_down(i, outcome)
    \/ \E i \in DOMAIN views, outcome \in AssignOutcomes : action_cursor_left(i, outcome)
    \/ \E i \in DOMAIN views, outcome \in AssignOutcomes : action_cursor_right(i, outcome)
    \/ \E i \in DOMAIN views, env \in DescribeEnvironments : action_describe(i, env)

GridSpec == Init /\ [][GridNext]_vars

\* the items of a describe's fetch whose metadata.name is the name asked for
NamedAs(items, resource_name) ==
    { n \in 1..Len(items) :
        /\ HasKey(items[n], "metadata")
        /\ HasKey(Field(items[n], "metadata"), "name")
        /\ Field(Field(items[n], "metadata"), "name") = VStr(resource_name) }

\* C22: a describe opens the describe screen for the selected kind and the
\* first cell of the row under the cursor; the payload is the first item of the
\* re-fetched collection whose metadata.name is that cell, and a dict with the
\* single key "error" when no item has that name, the collection is empty or
\* the fetch failed.
DescribeShowsFirstMatchOrError ==
    [][ modal' # modal =>
          /\ modal'.kind = "describe"
          /\ modal'.resource_type = selected_api_resource
          /\ modal'.resource_name = views[1].rows[views[1].cursor_row + 1][1]
          /\ LET items == IF modal'.refetched.tag = "list" THEN modal'.refetched.l ELSE <<>>
                 named == NamedAs(items, modal'.resource_name)
             IN IF named # {}
                THEN modal'.describe_data = items[Min(named)]
                ELSE /\ modal'.describe_data.tag = "dict"
                     /\ DOMAIN modal'.describe_data.d = {"error"}
                     /\ modal'.describe_data.d["error"].tag = "str" ]_vars

DescribedRowMissingFromRefetch ==
    /\ modal.kind = "describe"
    /\ modal.refetched.tag = "list"
    /\ Len(modal.refetched.l) = 2
    /\ HasKey(modal.describe_data, "error")

DescribedSecondRow ==
    /\ modal.kind = "describe"
    /\ modal.resource_name = "db"
    /\ modal.describe_data = PodNoStatus
    /\ modal.refetched = VList(<<PodNoStatus, PodRunning>>)

\* the cursor of view i is on a cell of the grid
CursorInGrid(view) ==
    /\ view.cursor_row \in 0..(Len(view.rows) - 1)
    /\ view.cursor_column \in 0..(Len(view.columns) - 1)

\* C25: a cursor key leaves the cursor on the grid; pressed at the grid's bound
\* it changes nothing, pressed anywhere else it moves the cursor by exactly one
\* row or one column; it runs no render pass and leaves the watch as it was.
CursorKeysMoveByOneInsideGrid ==
    [][ \A i \in DOMAIN views, outcome \in AssignOutcomes :
          LET table == views[i]
              moved(rows, columns) ==
                  /\ views'[i].cursor_row = table.cursor_row + rows
                  /\ views'[i].cursor_column = table.cursor_column + columns
                  /\ views'[i] = [table EXCEPT !.cursor_row = @ + rows,
                                               !.cursor_column = @ + columns]
                  /\ CursorInGrid(views'[i])
          IN /\ action_cursor_up(i, outcome) =>
                  moved(IF table.cursor_row > 0 THEN -1 ELSE 0, 0)
             /\ action_cursor_down(i, outcome) =>
                  moved(IF table.cursor_row < Len(table.rows) - 1 THEN 1 ELSE 0, 0)
             /\ action_cursor_left(i, outcome) =>
                  moved(0, IF table.cursor_column > 0 THEN -1 ELSE 0)
             /\ action_cursor_right(i, outcome) =>
                  moved(0, IF table.cursor_column < Len(table.columns) - 1 THEN 1 ELSE 0)
      ]_vars

---------------------------------------------------------------------------
(* The rows and columns a render pass leaves in the table *)

\* the items of the collection the latest pass of the view fetched
ItemsFetched(view) ==
    IF view.fetched.tag = "fetched" /\ view.fetched.data.tag = "list"
    THEN view.fetched.data.l ELSE <<>>

\* the columns inferred from the first of the items, <<>> when the inference
\* raised or found none
InferredColumns(items) ==
    IF items = <<>> THEN <<>>
    ELSE LET analysis == _analyze_resource_structure(items[1]) IN
         IF IsExc(analysis) THEN <<>> ELSE analysis.cols

\* every cell of every item can be extracted
CellsExtract(items, columns) ==
    \A n \in 1..Len(items), c \in 1..Len(columns) : ~IsExc(Cell(items[n], columns[c], 11400))

\* row n of the table holds the cells of item n
OneRowPerItem(view, items, columns) ==
    /\ Len(view.rows) = Len(items)
    /\ \A n \in 1..Len(items) :
         view.rows[n] = [c \in 1..Len(columns) |-> PyStr(Cell(items[n], columns[c], 11400))]

\* view i has just run a render pass
PassRun(i) == i \in DOMAIN views /\ views'[i].passes = views[i].passes + 1

\* C23: after a render pass the rows of the table are the rows of that pass
\* alone: one row per item of the collection it fetched, in fetch order, when
\* the collection has items, columns were inferred and every cell extracted,
\* and otherwise exactly one placeholder or error row.
RowsAreTheLatestSnapshot ==
    [][ \A i \in DOMAIN views' :
          PassRun(i) =>
            LET items == ItemsFetched(views'[i])
                columns == InferredColumns(items)
            IN IF columns # <<>> /\ CellsExtract(items, columns)
               THEN OneRowPerItem(views'[i], items, columns)
               ELSE Len(views'[i].rows) = 1 ]_vars

\* C23 as stated: after every render pass the table has exactly one row per
\* item of the collection fetched in that pass.
RowsAreOnePerFetchedItem ==
    [][ \A i \in DOMAIN views' :
          PassRun(i) => Len(views'[i].rows) = Len(ItemsFetched(views'[i])) ]_vars

\* a second pass has replaced the one row of a failed fetch by the rows of two
\* items
SnapshotReplacedPlaceholderRow ==
    \E i \in DOMAIN views :
        /\ views[i].passes = 2
        /\ Len(ItemsFetched(views[i])) = 2
        /\ Len(views[i].rows) = 2
        /\ "RESULT" \in { views[i].columns[c] : c \in 1..Len(views[i].columns) }

---------------------------------------------------------------------------
(* FormatSpec: _format_logs on its own *)

MaxLogLen == 5   \* characters of a raw log text

LogChars == { "a", "b", " ", "\n" }

\* the texts of at most n characters
RECURSIVE LogTexts(_)
LogTexts(n) ==
    IF n = 0 THEN { "" }
    ELSE LogTexts(n - 1) \cup { t \o c : t \in LogTexts(n - 1), c \in LogChars }

FormatInit ==
    /\ selected_api_resource = ""
    /\ current_namespace = "default"
    /\ views = <<>>
    /\ sample \in { VStr(t) : t \in LogTexts(MaxLogLen) }
    /\ field_path = ""
    /\ result = NoResult
    /\ stage = "raw"
    /\ now = 0
    /\ modal = NoModal

\* self._format_logs(logs), line 127
Format ==
    /\ stage = "raw"
    /\ result' = VStr(_format_logs(sample.s))
    /\ stage' = "formatted"
    /\ UNCHANGED <<sample, field_path, now, modal>>
    /\ UNCHANGED appvars

FormatSpec == FormatInit /\ [][Format]_vars

\* the lines of the formatted text after the source lines `kept`, each as
\* line(source line): one output line per kept line, an empty line between each
\* two, none before the first or after the last
SeparatedBy(kept, line(_)) ==
    IF kept = <<>> THEN result.s = ""
    ELSE LET out == PySplit(result.s, "\n") IN
         /\ Len(out) = 2 * Len(kept) - 1
         /\ \A k \in 1..Len(kept) : out[2 * k - 1] = line(kept[k])
         /\ \A k \in 1..(Len(kept) - 1) : out[2 * k] = ""

\* C24: the formatted text holds the source lines that are not blank (empty or
\* white space only), in order and each without its leading and trailing white
\* space, with exactly one empty line between each two and none before the
\* first or after the last: n such lines give 2n-1 output lines.
FormatSeparatesNonBlankLines ==
    stage = "formatted" =>
        SeparatedBy(SelectSeq(PySplit(sample.s, "\n"), LAMBDA line : ~Blank(line)), PyStrip)

\* C24 as stated: the formatted text holds the non-empty source lines as they
\* are, with one empty line between each two.
FormatSeparatesNonEmptyLines ==
    stage = "formatted" =>
        SeparatedBy(SelectSeq(PySplit(sample.s, "\n"), LAMBDA line : line # ""),
                    LAMBDA line : line)

ThreeLinesFormatted ==
    /\ stage = "formatted"
    /\ sample = VStr("a\nb\na")
    /\ result = VStr("a\n\nb\n\na")

---------------------------------------------------------------------------
(* FacadeSpec: the operations of KubeAPI, each on its own *)

\* What a list call of the client returns: raises, or a list object with items
Listing(items) == [tag |-> "listing", items |-> items]

\* The clusters the facade is used against: the kubeconfig loads or not, what
\* discovery meets, what a list call of the client returns.
FacadeClusters ==
    [ config : { VNone, Raise("ConfigException") },
      discovery : { [core |-> Raise("ApiException"), groups |-> Raise("ApiException")],
                    [core |-> Response(CoreV1Document), groups |-> Raise("ApiException")],
                    [core |-> Response(ResourceList(<<>>)), groups |-> GroupList(<<>>)] },
      listing : { Raise("ApiException"), Listing(<<>>), Listing(<<VStr("a")>>),
                  Listing(<<VStr("a"), VStr("b")>>) } ]

\* KubeAPI.__init__, lines 11-22: the exception of load_kube_config is raised
\* again
KubeAPI(cluster) ==
    IF IsExc(cluster.config) THEN cluster.config ELSE [tag |-> "kube_api"]

\* lines 101-180: `return <list call>.items` inside try, `return []` in except
ItemsOrEmpty(listing) == IF IsExc(listing) THEN EmptyList ELSE VList(listing.items)

\* KubeAPI.get_namespaces, lines 101-110
get_namespaces(cluster) == ItemsOrEmpty(cluster.listing)

\* KubeAPI.get_pods, lines 112-124; namespace None: all namespaces
get_pods(cluster, namespace) == ItemsOrEmpty(cluster.listing)

\* KubeAPI.get_services, lines 126-138
get_services(cluster, namespace) == ItemsOrEmpty(cluster.listing)

\* KubeAPI.get_deployments, lines 140-152
get_deployments(cluster, namespace) == ItemsOrEmpty(cluster.listing)

\* KubeAPI.get_configmaps, lines 154-166
get_configmaps(cluster, namespace) == ItemsOrEmpty(cluster.listing)

\* KubeAPI.get_secrets, lines 168-180
get_secrets(cluster, namespace) == ItemsOrEmpty(cluster.listing)

FacadeOperations ==
    { "get_api_resources", "get_namespaces", "get_pods", "get_services", "get_deployments",
      "get_configmaps", "get_secrets" }

\* what the operation returns
Returned(operation, cluster, namespace) ==
    CASE operation = "get_api_resources" ->
             [tag |-> "catalog", entries |-> get_api_resources(cluster.discovery)]
      [] operation = "get_namespaces" -> get_namespaces(cluster)
      [] operation = "get_pods" -> get_pods(cluster, namespace)
      [] operation = "get_services" -> get_services(cluster, namespace)
      [] operation = "get_deployments" -> get_deployments(cluster, namespace)
      [] operation = "get_configmaps" -> get_configmaps(cluster, namespace)
      [] operation = "get_secrets" -> get_secrets(cluster, namespace)

\* a call of the client made by the operation raised
ClientFailed(operation, cluster) ==
    IF operation = "get_api_resources"
    THEN \E q \in 1..Len(Queries(cluster.discovery)) :
             IsExc(Queries(cluster.discovery)[q].response)
         \/ IsExc(cluster.discovery.groups)
    ELSE IsExc(cluster.listing)

\* one use of the facade: the operation, what it returned or raised, and
\* whether a call of the client failed in it
Used(operation, namespace, returned, failed) ==
    [ operation |-> operation, namespace |-> namespace, returned |-> returned,
      failed |-> failed ]

FacadeInit ==
    /\ selected_api_resource = ""
    /\ current_namespace = "default"
    /\ views = <<>>
    /\ sample \in FacadeClusters
    /\ field_path = ""
    /\ result = NoResult
    /\ stage = "new"
    /\ now = 0
    /\ modal = NoModal

\* kube_api = KubeAPI()
Construct ==
    /\ stage = "new"
    /\ result' = Used("__init__", VNone, KubeAPI(sample), IsExc(sample.config))
    /\ stage' = IF IsExc(KubeAPI(sample)) THEN "raised" ELSE "constructed"
    /\ UNCHANGED <<sample, field_path, now, modal>>
    /\ UNCHANGED appvars

\* kube_api.<operation>(), with a namespace or None where the operation takes one
Call(operation, namespace) ==
    /\ stage = "constructed"
    /\ operation \in {"get_api_resources", "get_namespaces"} => namespace = VNone
    /\ result' = Used(operation, namespace, Returned(operation, sample, namespace),
                      ClientFailed(operation, sample))
    /\ stage' = "called"
    /\ UNCHANGED <<sample, field_path, now, modal>>
    /\ UNCHANGED appvars

FacadeNext ==
    \/ Construct
    \/ \E operation \in FacadeOperations, namespace \in {VNone, VStr("default")} :
           Call(operation, namespace)

FacadeSpec == FacadeInit /\ [][FacadeNext]_vars

\* what the operation returns on the clusters where no call of the client fails
SuccessfulReturns(operation, namespace) ==
    { Returned(operation, cluster, namespace) :
        cluster \in { c \in FacadeClusters : ~ClientFailed(operation, c) } }

\* C26: no operation of the facade, its construction included, raises, and
\* what an operation returns after a failed call of the client is no value the
\* operation returns after a successful one.
FacadeTagsEveryFailure ==
    result # NoResult =>
        /\ ~IsExc(result.returned)
        /\ (result.operation # "__init__" /\ result.failed) =>
               result.returned \notin SuccessfulReturns(result.operation, result.namespace)

---------------------------------------------------------------------------
(* The watch flag and the timer handle of the table view *)

\* a handler of view i that the watch goes through has just run: the toggle, a
\* tick, or the unmount
WatchHandlerRan(i) ==
    /\ i \in DOMAIN views
    /\ \/ views'[i].watch_enabled # views[i].watch_enabled
       \/ views'[i].callbacks_queued < views[i].callbacks_queued
       \/ views'[i].status = "unmounted" /\ views[i].status # "unmounted"

\* C27: at the end of a toggle, a tick and the unmount, the watch flag is set
\* exactly when a timer is held: with the flag set the handle refers to a
\* pending timer, with the flag clear the handle is None and no timer of the
\* view is pending.
WatchFlagIffTimerHeld ==
    [][ \A i \in DOMAIN views' :
          WatchHandlerRan(i) =>
            IF views'[i].watch_enabled
            THEN views'[i].watch_timer = "pending"
            ELSE views'[i].watch_timer = "None" /\ views'[i].timers_pending = 0 ]_vars


\* C28: after a render pass the columns of the table are the columns that
\* pass added and no column of an earlier pass: the inferred columns (followed
\* by ERROR when a cell of the pass raised), or the one or two columns of a
\* placeholder or error table, one per cell of its row.
ColumnsAreTheLatestPass ==
    [][ \A i \in DOMAIN views' :
          PassRun(i) =>
            LET items == ItemsFetched(views'[i])
                columns == InferredColumns(items)
            IN IF columns # <<>>
               THEN views'[i].columns =
                        ColumnNames(columns)
                        \o (IF CellsExtract(items, columns) THEN <<>> ELSE <<"ERROR">>)
               ELSE /\ Len(views'[i].columns) \in {1, 2}
                    /\ Len(views'[i].columns) = Len(views'[i].rows[1]) ]_vars


---------------------------------------------------------------------------
(* PollSpec: the table views, their watch loops and the namespace picker,   *)
(* against a cluster that answers                                           *)

\* the environments with a client and the full catalog: the list call returns
\* items or fails
PollEnvironments ==
    { env \in WatchEnvironments : env.init = VNone /\ env.catalog = FullCatalog }

PollNext ==
    \/ \E k \in Kinds : SelectKind(k, MaxViews)
    \/ \E i \in DOMAIN views : OnMount(i, PollEnvironments)
    \/ \E i \in DOMAIN views : OnUnmount(i)
    \/ \E i \in DOMAIN views : action_watch(i)
    \/ \E i \in DOMAIN views, held \in BOOLEAN : TimerFire(i, held)
    \/ \E i \in DOMAIN views, held \in BOOLEAN : _refresh_data(i, held, PollEnvironments)
    \/ \E ns \in Namespaces : NamespaceSelect(ns)

PollSpec == Init /\ [][PollNext]_vars

\* a tick of view i has just run a render pass
TickRefreshed(i) ==
    /\ i \in DOMAIN views
    /\ views'[i].callbacks_queued < views[i].callbacks_queued
    /\ views'[i].passes = views[i].passes + 1

\* C29: a tick of a watching view fetches the kind captured when the watch was
\* started, from the namespace current at the tick, and leaves the watch
\* running; the captured kind does not change while the watch is on, and
\* changing the namespace neither stops nor restarts a watch.
WatchPollsCapturedKindInCurrentNamespace ==
    [][ /\ \A i \in DOMAIN views' :
             TickRefreshed(i) =>
               /\ views'[i].fetched.tag = "fetched"
               /\ views'[i].fetched.resource = views[i].current_resource
               /\ StrContains("/namespaces/" \o current_namespace \o "/"
                                  \o views[i].current_resource,
                              views'[i].fetched.path)
               /\ views'[i].watch_enabled
               /\ views'[i].watch_timer = "pending"
        /\ \A i \in DOMAIN views :
             views[i].watch_enabled /\ views'[i].watch_enabled =>
                 views'[i].current_resource = views[i].current_resource
        /\ current_namespace' # current_namespace => views' = views ]_vars

\* a view that is being replaced has polled its own kind, not the one now
\* selected, from the namespace picked after the listing was first shown
PolledOldKindInNewNamespace ==
    \E i \in DOMAIN views :
        /\ views[i].watch_enabled
        /\ views[i].last_tick = "refreshed"
        /\ views[i].current_resource # selected_api_resource
        /\ views[i].fetched.resource = views[i].current_resource
        /\ current_namespace = "kube-system"
        /\ StrContains("/namespaces/kube-system/", views[i].fetched.path)

---------------------------------------------------------------------------
(* ResolveSpec: one fetch, from discovery to the rendered table, against    *)
(* clusters that serve a resource name under several group/versions         *)

CoreEventsDocument ==
    ResourceList(<< Resource(VStr("pods"), VStr("Pod"), VBool(TRUE), VList(<<VStr("po")>>)),
                    Resource(VStr("pods/log"), VStr("Pod"), VBool(TRUE), Absent),
                    Resource(VStr("events"), VStr("Event"), VBool(TRUE), VList(<<VStr("ev")>>)) >>)
EventsV1Document ==
    ResourceList(<< Resource(VStr("events"), VStr("Event"), VBool(TRUE), VList(<<VStr("ev")>>)) >>)

\* core serves pods and events; apps serves deployments under v1 and v1beta1,
\* events.k8s.io serves events; the groups are listed in either order and any
\* query may fail
ResolvedClusters ==
    { [core |-> c, groups |-> g] :
        c \in { Raise("ApiException"), Response(CoreEventsDocument) },
        g \in { Raise("ApiException") }
              \cup UNION { { GroupList(
                               << [name |-> "apps", versions |-> <<GroupVersion("v1", a),
                                                                GroupVersion("v1beta1", b)>>],
                                  [name |-> "events.k8s.io",
                                   versions |-> <<GroupVersion("v1", e)>>] >>),
                             GroupList(
                               << [name |-> "events.k8s.io",
                                   versions |-> <<GroupVersion("v1", e)>>],
                                  [name |-> "apps", versions |-> <<GroupVersion("v1beta1", b),
                                                                GroupVersion("v1", a)>>] >>) } :
                           a \in { Raise("ApiException"), Response(AppsV1Document) },
                           b \in { Raise("ApiException"), Response(AppsV1beta1Document) },
                           e \in { Raise("ApiException"), Response(EventsV1Document) } } }

\* the names selected in the list; the list shows "jobs" for no cluster above
ResolvedNames == { "pods", "events", "deployments", "jobs" }

\* what get_api_resources returns, as _get_resource_data reads it: name,
\* apiversion, and `if namespaced`
CatalogOf(entries) ==
    [i \in 1..Len(entries) |->
        CatalogEntry(entries[i].name, entries[i].apiversion,
                     PyTruthy(entries[i].namespaced), PyStr(entries[i].kind))]

ResolveInit ==
    /\ selected_api_resource \in ResolvedNames
    /\ current_namespace \in Namespaces
    /\ views = <<>>
    /\ sample \in [ cluster : ResolvedClusters,
                    response : { Raise("ApiException"),
                                 Response(VDict("items" :> EmptyList)),
                                 Response(VDict("items" :> VList(<<PodRunning, PodNoStatus>>))) } ]
    /\ field_path = ""
    /\ result = NoResult
    /\ stage = "selected"
    /\ now = 0
    /\ modal = NoModal

\* lines 71-97 of _populate_output: discovery, the fetch, what is rendered
Resolve ==
    /\ stage = "selected"
    /\ \E catalog \in { [tag |-> "catalog", entries |-> get_api_resources(sample.cluster)] } :
       \E got \in { _get_resource_data(selected_api_resource, current_namespace,
                                       [ init |-> VNone, catalog |-> CatalogOf(catalog.entries),
                                         response |-> sample.response, wall |-> 11400 ]) } :
          result' = [ catalog |-> catalog, fetched |-> got,
                      table |-> RenderFetched(selected_api_resource, current_namespace,
                                              11400, got) ]
    /\ stage' = "resolved"
    /\ UNCHANGED <<sample, field_path, now, modal>>
    /\ UNCHANGED appvars

ResolveSpec == ResolveInit /\ [][Resolve]_vars

\* the API versions of the queries that reported the name, in discovery order
RECURSIVE ServedBy(_, _)
ServedBy(queries, name) ==
    IF queries = <<>> THEN <<>>
    ELSE (IF \E n \in 1..Len(Reported(queries[1])) : Reported(queries[1])[n] = name
          THEN <<queries[1].api_version>> ELSE <<>>)
         \o ServedBy(Tail(queries), name)

\* the collection endpoint of a namespaced resource under an API version
CollectionPath(api_version, namespace, name) ==
    (IF api_version = "v1" THEN "/api/v1" ELSE "/apis/" \o api_version)
    \o "/namespaces/" \o namespace \o "/" \o name

\* C30: the catalog holds one entry for every group/version that serves a
\* name, and the fetch goes to the first of them in discovery order, so to core
\* v1 whenever core serves the name; a name without an entry is rendered as
\* the one row of an empty collection.
FetchResolvesToFirstEntry ==
    stage = "resolved" =>
        LET serving == ServedBy(Queries(sample.cluster), selected_api_resource)
            entries == SelectSeq(result.catalog.entries,
                                 LAMBDA entry : entry.name = selected_api_resource)
        IN /\ [n \in 1..Len(entries) |-> entries[n].apiversion] = serving
           /\ IF serving = <<>>
              THEN /\ result.fetched.response = NoCall
                   /\ result.table.columns = <<"RESULT">>
                   /\ result.table.rows =
                          RenderFetched(selected_api_resource, current_namespace, 11400,
                                        Fetched("", NoCall, EmptyList)).rows
              ELSE /\ result.fetched.path =
                          CollectionPath(serving[1], current_namespace, selected_api_resource)
                   /\ ("v1" \in { serving[n] : n \in 1..Len(serving) }) => serving[1] = "v1"

CoreShadowsGroupEntry ==
    /\ stage = "resolved"
    /\ selected_api_resource = "events"
    /\ Len(SelectSeq(result.catalog.entries, LAMBDA entry : entry.name = "events")) = 2
    /\ result.fetched.path = "/api/v1/namespaces/default/events"
    /\ Len(result.table.rows) = 2

EarlierVersionShadowsLater ==
    /\ stage = "resolved"
    /\ selected_api_resource = "deployments"
    /\ Len(SelectSeq(result.catalog.entries, LAMBDA entry : entry.name = "deployments")) = 2
    /\ result.fetched.path = "/apis/apps/v1beta1/namespaces/kube-system/deployments"
===========================================================================
